---------------------------- MODULE Spec2Model ----------------------------
(***************************************************************************)
(* Model of the atomic-rs dispatch-and-fallback engine.                    *)
(*                                                                         *)
(*   src/src/fallback.rs  the table of 64 address-hashed spinlocks and the *)
(*                        emulated operations (lock, plain read, plain     *)
(*                        write, unlock)                                   *)
(*   src/src/ops.rs       the dispatcher: native primitive when the type's *)
(*                        size and alignment match an available width,     *)
(*                        else the fallback engine                         *)
(*   src/src/stable.rs    the dispatcher of the backend that has only the  *)
(*                        pointer-width primitive                          *)
(*                                                                         *)
(* Memory is byte addressed.  A value of a type T is the sequence of its   *)
(* size_of(T) bytes (little endian), so that bit patterns, and not the     *)
(* type's own notion of equality, are what the model stores and compares.  *)
(* A plain read or write of a value moves it one machine word at a time;   *)
(* a native atomic instruction is one step.                                *)
(***************************************************************************)
EXTENDS Integers, Sequences, FiniteSets, TLC

(***************************************************************************)
(* Program constants.                                                      *)
(***************************************************************************)
\* SPINLOCKS: [SpinLock; 64]
NLOCKS == 64
\* mem::size_of::<usize>() and mem::align_of::<usize>() on a 64-bit target
SIZEOF_USIZE == 8
ALIGNOF_USIZE == 8

Bytes == 0 .. 255

Min2(a, b) == IF a <= b THEN a ELSE b

(***************************************************************************)
(* core::sync::atomic::Ordering                                            *)
(***************************************************************************)
Ordering == {"Relaxed", "Acquire", "Release", "AcqRel", "SeqCst"}

(***************************************************************************)
(* Value types.  size and align are mem::size_of::<T>() and                *)
(* mem::align_of::<T>(); int tells whether T is a primitive integer (the   *)
(* trait bounds of add, sub, and, or, xor, min, max admit nothing else);   *)
(* signed is the signedness of T's own Ord.                                *)
(***************************************************************************)
Ty(s, a, i, sg) == [size |-> s, align |-> a, int |-> i, signed |-> sg]

T_u8       == Ty(1, 1, TRUE, FALSE)
T_i8       == Ty(1, 1, TRUE, TRUE)
T_u16      == Ty(2, 2, TRUE, FALSE)
T_u32      == Ty(4, 4, TRUE, FALSE)
T_u64      == Ty(8, 8, TRUE, FALSE)
\* #[repr(packed)] wrappers: right size, alignment 1
T_packed2  == Ty(2, 1, FALSE, FALSE)
T_packed4  == Ty(4, 1, FALSE, FALSE)
T_packed8  == Ty(8, 1, FALSE, FALSE)
\* a struct of three 8-byte fields
T_struct24 == Ty(24, 8, FALSE, FALSE)
T_i16      == Ty(2, 2, TRUE, TRUE)
\* f32 and f64
T_f32      == Ty(4, 4, FALSE, FALSE)
T_f64      == Ty(8, 8, FALSE, FALSE)

(***************************************************************************)
(* Byte-sequence arithmetic: a value of width w = 8 * Len(v) bits.         *)
(***************************************************************************)
RECURSIVE Carry(_, _, _, _)
\* carry out of byte i when adding a, b with carry-in c0
Carry(a, b, i, c0) ==
    IF i = 0 THEN c0 ELSE (a[i] + b[i] + Carry(a, b, i - 1, c0)) \div 256

Complement(b) == [i \in 1 .. Len(b) |-> 255 - b[i]]

\* Wrapping(a) + Wrapping(b): addition modulo 2^w
WrappingAdd(a, b) ==
    [i \in 1 .. Len(a) |-> (a[i] + b[i] + Carry(a, b, i - 1, 0)) % 256]

\* Wrapping(a) - Wrapping(b): subtraction modulo 2^w (a + ~b + 1)
WrappingSub(a, b) ==
    LET nb == Complement(b)
    IN  [i \in 1 .. Len(a) |-> (a[i] + nb[i] + Carry(a, nb, i - 1, 1)) % 256]

\* x & y, x | y, x ^ y on the low n bits (no bit is left once x and y are 0)
RECURSIVE BitAndN(_, _, _)
BitAndN(x, y, n) ==
    IF n = 0 \/ x = 0 \/ y = 0 THEN 0
    ELSE (IF x % 2 = 1 /\ y % 2 = 1 THEN 1 ELSE 0) + 2 * BitAndN(x \div 2, y \div 2, n - 1)

RECURSIVE BitOrN(_, _, _)
BitOrN(x, y, n) ==
    IF n = 0 \/ (x = 0 /\ y = 0) THEN 0
    ELSE (IF x % 2 = 1 \/ y % 2 = 1 THEN 1 ELSE 0) + 2 * BitOrN(x \div 2, y \div 2, n - 1)

RECURSIVE BitXorN(_, _, _)
BitXorN(x, y, n) ==
    IF n = 0 \/ (x = 0 /\ y = 0) THEN 0
    ELSE (IF x % 2 # y % 2 THEN 1 ELSE 0) + 2 * BitXorN(x \div 2, y \div 2, n - 1)

BitAnd(a, b) == [i \in 1 .. Len(a) |-> BitAndN(a[i], b[i], 8)]
BitOr(a, b)  == [i \in 1 .. Len(a) |-> BitOrN(a[i], b[i], 8)]
BitXor(a, b) == [i \in 1 .. Len(a) |-> BitXorN(a[i], b[i], 8)]

RECURSIVE UnsignedLessFrom(_, _, _)
\* a < b as unsigned integers, comparing bytes i, i-1, .., 1 (most significant first)
UnsignedLessFrom(a, b, i) ==
    IF i = 0 THEN FALSE
    ELSE IF a[i] # b[i] THEN a[i] < b[i]
    ELSE UnsignedLessFrom(a, b, i - 1)

UnsignedLess(a, b) == UnsignedLessFrom(a, b, Len(a))

Negative(a) == a[Len(a)] >= 128

\* a < b as two's-complement signed integers
SignedLess(a, b) ==
    IF Negative(a) # Negative(b) THEN Negative(a) ELSE UnsignedLess(a, b)

\* <T as Ord>::lt
OrdLess(T, a, b) == IF T.signed THEN SignedLess(a, b) ELSE UnsignedLess(a, b)

\* cmp::min(a, b): b only when b < a;  cmp::max(a, b): a only when b < a
CmpMin(T, a, b) == IF OrdLess(T, b, a) THEN b ELSE a
CmpMax(T, a, b) == IF OrdLess(T, b, a) THEN a ELSE b

\* bytemuck::bytes_of(&v): the size_of(T) bytes of v, in memory order
bytes_of(v) == [i \in 1 .. Len(v) |-> v[i]]

\* mem::transmute_copy::<_, U>(&v): the first size_of(U) bytes of v
transmute_copy(v, n) == [i \in 1 .. n |-> v[i]]


(***************************************************************************)
(* Capability flags (cfg has_atomic_u8 .. has_fetch_min): fixed at         *)
(* build time, read by the dispatcher only.                                *)
(***************************************************************************)
FlagNames ==
    {"u8", "u16", "u32", "u64", "usize", "i8", "i16", "i32", "i64", "isize", "fetch_min"}

AllFlags(b) == [n \in FlagNames |-> b]

\* The build in which exactly the flags of S are set
OnlyFlags(S) == [n \in FlagNames |-> n \in S]

\* stable.rs is compiled where core has AtomicUsize and AtomicIsize and
\* nothing else is known of it
StableFlags == OnlyFlags({"usize", "isize"})

(***************************************************************************)
(* ops.rs: the dispatcher.                                                 *)
(***************************************************************************)
\* A match whose arms are compiled in whatever the flags
match_atomic_no_cfg(T, f) ==
    IF T.size = 1 /\ T.align >= 1 THEN "AtomicU8"
    ELSE IF T.size = 2 /\ T.align >= 2 THEN "AtomicU16"
    ELSE IF T.size = 4 /\ T.align >= 4 THEN "AtomicU32"
    ELSE IF T.size = 8 /\ T.align >= 8 THEN "AtomicU64"
    ELSE "fallback"

\* match_atomic!: the first arm whose size, cfg and alignment guard all hold
match_atomic(T, f) ==
    IF f["u8"] /\ T.size = 1 /\ T.align >= 1 THEN "AtomicU8"
    ELSE IF f["u16"] /\ T.size = 2 /\ T.align >= 2 THEN "AtomicU16"
    ELSE IF f["u32"] /\ T.size = 4 /\ T.align >= 4 THEN "AtomicU32"
    ELSE IF f["u64"] /\ T.size = 8 /\ T.align >= 8 THEN "AtomicU64"
    ELSE IF f["usize"] /\ T.size = SIZEOF_USIZE /\ T.align >= ALIGNOF_USIZE THEN "AtomicUsize"
    ELSE "fallback"

\* match_signed_atomic!
match_signed_atomic(T, f) ==
    IF f["i8"] /\ T.size = 1 /\ T.align >= 1 THEN "AtomicI8"
    ELSE IF f["i16"] /\ T.size = 2 /\ T.align >= 2 THEN "AtomicI16"
    ELSE IF f["i32"] /\ T.size = 4 /\ T.align >= 4 THEN "AtomicI32"
    ELSE IF f["i64"] /\ T.size = 8 /\ T.align >= 8 THEN "AtomicI64"
    ELSE IF f["isize"] /\ T.size = SIZEOF_USIZE /\ T.align >= ALIGNOF_USIZE THEN "AtomicIsize"
    ELSE "fallback"

\* An answer that looks at the size and the flag and not at the alignment
atomic_is_lock_free_by_size(T, f) ==
    \/ (f["u8"] /\ T.size = 1)
    \/ (f["u16"] /\ T.size = 2)
    \/ (f["u32"] /\ T.size = 4)
    \/ (f["u64"] /\ T.size = 8)
    \/ (f["usize"] /\ T.size = SIZEOF_USIZE)

atomic_is_lock_free(T, f) ==
    \/ (f["u8"] /\ T.size = 1 /\ T.align >= 1)
    \/ (f["u16"] /\ T.size = 2 /\ T.align >= 2)
    \/ (f["u32"] /\ T.size = 4 /\ T.align >= 4)
    \/ (f["u64"] /\ T.size = 8 /\ T.align >= 8)
    \/ (f["usize"] /\ T.size = SIZEOF_USIZE /\ T.align >= ALIGNOF_USIZE)

\* The fourteen public operations
OpKinds ==
    {"load", "store", "swap", "compare_exchange", "compare_exchange_weak",
     "add", "sub", "and", "or", "xor", "min", "max", "umin", "umax"}

MinMaxKinds == {"min", "max", "umin", "umax"}

BitKinds == {"and", "or", "xor"}

\* The native cell type an operation of the given kind on a T is forwarded to,
\* or "fallback"
ops_route(kind, T, f) ==
    IF kind \in {"min", "max"}
    THEN (IF f["fetch_min"] THEN match_signed_atomic(T, f) ELSE "fallback")
    ELSE IF kind \in {"umin", "umax"}
    THEN (IF f["fetch_min"] THEN match_atomic(T, f) ELSE "fallback")
    ELSE match_atomic(T, f)

SignedCells == {"AtomicI8", "AtomicI16", "AtomicI32", "AtomicI64", "AtomicIsize"}

(***************************************************************************)
(* stable.rs: the dispatcher of the backend that has AtomicUsize only.     *)
(***************************************************************************)
\* size_of::<T>() == size_of::<AtomicUsize>() && align_of::<T>() >= size_of::<AtomicUsize>()
stable_route(kind, T) ==
    IF T.size = SIZEOF_USIZE /\ T.align >= SIZEOF_USIZE THEN "AtomicUsize" ELSE "fallback"

stable_atomic_is_lock_free(T) ==
    T.size = SIZEOF_USIZE /\ T.align >= SIZEOF_USIZE

(***************************************************************************)
(* nightly.rs: the dispatcher of the backend built on the intrinsics.  Its *)
(* capability flags are cfg(target_has_atomic = "8" .. "64"), which hold   *)
(* exactly when core has AtomicU8 .. AtomicU64: the flags u8 .. u64.       *)
(***************************************************************************)
target_has_atomic(f, bits) ==
    f[CASE bits = 8 -> "u8" [] bits = 16 -> "u16" [] bits = 32 -> "u32" [] bits = 64 -> "u64"]

nightly_atomic_is_lock_free(T, f) ==
    \/ (target_has_atomic(f, 8) /\ T.size = 1 /\ T.align >= 1)
    \/ (target_has_atomic(f, 16) /\ T.size = 2 /\ T.align >= 2)
    \/ (target_has_atomic(f, 32) /\ T.size = 4 /\ T.align >= 4)
    \/ (target_has_atomic(f, 64) /\ T.size = 8 /\ T.align >= 8)

\* atomic_load, atomic_store, atomic_swap, atomic_compare_exchange(_weak):
\* match on the size, each arm guarded by its cfg and by the alignment
nightly_match_guarded(T, f) ==
    IF target_has_atomic(f, 8) /\ T.size = 1 /\ T.align >= 1 THEN "*mut u8"
    ELSE IF target_has_atomic(f, 16) /\ T.size = 2 /\ T.align >= 2 THEN "*mut u16"
    ELSE IF target_has_atomic(f, 32) /\ T.size = 4 /\ T.align >= 4 THEN "*mut u32"
    ELSE IF target_has_atomic(f, 64) /\ T.size = 8 /\ T.align >= 8 THEN "*mut u64"
    ELSE "fallback"

\* atomic_add, atomic_sub, atomic_and, atomic_or, atomic_xor: match on the
\* size, each arm guarded by its cfg only
nightly_match_size(T, f) ==
    IF target_has_atomic(f, 8) /\ T.size = 1 THEN "*mut T"
    ELSE IF target_has_atomic(f, 16) /\ T.size = 2 THEN "*mut T"
    ELSE IF target_has_atomic(f, 32) /\ T.size = 4 THEN "*mut T"
    ELSE IF target_has_atomic(f, 64) /\ T.size = 8 THEN "*mut T"
    ELSE "fallback"

nightly_route(kind, T, f) ==
    IF kind \in {"add", "sub", "and", "or", "xor"}
    THEN nightly_match_size(T, f)
    ELSE nightly_match_guarded(T, f)

\* The operations each backend has: stable.rs and nightly.rs have no min/max
BackendKinds(backend) ==
    IF backend = "ops" THEN OpKinds ELSE OpKinds \ MinMaxKinds

\* The dispatcher of the backend the build selects
route(backend, kind, T, f) ==
    IF backend = "stable" THEN stable_route(kind, T)
    ELSE IF backend = "nightly" THEN nightly_route(kind, T, f)
    ELSE ops_route(kind, T, f)

\* atomic_is_lock_free of the backend the build selects
is_lock_free(backend, T, f) ==
    IF backend = "stable" THEN stable_atomic_is_lock_free(T)
    ELSE IF backend = "nightly" THEN nightly_atomic_is_lock_free(T, f)
    ELSE atomic_is_lock_free(T, f)

(***************************************************************************)
(* fallback.rs: lock selection.                                            *)
(***************************************************************************)
\* Mutant: the shift discards one bit fewer
Shr_one_less(x, n) == x \div (2 ^ (n - 1))

\* addr >> n on a usize
Shr(x, n) == x \div (2 ^ n)

\* Mutant: the higher bits are not folded into the preliminary index
lock_for_addr_no_fold(addr) ==
    BitAndN(Shr(addr, 4), NLOCKS - 1, 8 * SIZEOF_USIZE)

\* The index into SPINLOCKS of the cell lock_for_addr returns
lock_for_addr(addr) ==
    LET hash0 == Shr(addr, 4)
        low   == BitAndN(hash0, NLOCKS - 1, 8 * SIZEOF_USIZE)
        hash1 == Shr(hash0, 16)
        hash2 == BitXorN(hash1, low, 8 * SIZEOF_USIZE)
    IN  BitAndN(hash2, NLOCKS - 1, 8 * SIZEOF_USIZE)

(***************************************************************************)
(* fallback.rs: what each emulated operation does between taking and       *)
(* dropping the guard, given `result`, the value ptr::read returned.       *)
(*   write: whether ptr::write is executed      new: the value written     *)
(*   tag:   the shape of the returned value     fail: whether the guard's  *)
(*          order is replaced by the failure ordering                      *)
(***************************************************************************)
Body(w, n, tg, fl) == [write |-> w, new |-> n, tag |-> tg, fail |-> fl]

fallback_atomic_load(result) == Body(FALSE, <<>>, "val", FALSE)

\* Mutant: the last byte of the value is not written to the location's copy
fallback_atomic_store_short(val) ==
    Body(TRUE, [i \in 1 .. Len(val) |-> IF i = Len(val) THEN 0 ELSE val[i]], "unit", FALSE)

fallback_atomic_store(val) == Body(TRUE, val, "unit", FALSE)

\* Mutant: the value read is written back, the operand is dropped
fallback_atomic_swap_keep(result, val) == Body(TRUE, result, "val", FALSE)

fallback_atomic_swap(result, val) == Body(TRUE, val, "val", FALSE)

\* IEEE 754 binary32 / binary64 values as their 4 / 8 bytes: the type's own
\* equality (PartialEq) treats +0.0 and -0.0 as equal and a NaN as unequal to
\* itself
FloatPosZero(n) == [i \in 1 .. n |-> 0]
FloatNegZero(n) == [i \in 1 .. n |-> IF i = n THEN 128 ELSE 0]
FloatNaN(n) ==
    [i \in 1 .. n |-> IF i = n THEN 127
                      ELSE IF i = n - 1 THEN (IF n = 4 THEN 192 ELSE 248)
                      ELSE 0]
FloatOne(n) ==
    [i \in 1 .. n |-> IF i = n THEN 63
                      ELSE IF i = n - 1 THEN (IF n = 4 THEN 128 ELSE 240)
                      ELSE 0]

FloatIsNaN(v) ==
    LET n == Len(v)
        expOnes == IF n = 4 THEN v[n] % 128 = 127 /\ v[n - 1] >= 128
                   ELSE v[n] % 128 = 127 /\ v[n - 1] \div 16 = 15
        mantissa == IF n = 4 THEN v[n - 1] % 128 ELSE v[n - 1] % 16
    IN  expOnes /\ (mantissa # 0 \/ \E i \in 1 .. (n - 2) : v[i] # 0)

FloatIsZero(v) == v \in {FloatPosZero(Len(v)), FloatNegZero(Len(v))}

FloatEq(a, b) ==
    /\ ~FloatIsNaN(a)
    /\ ~FloatIsNaN(b)
    /\ (a = b \/ (FloatIsZero(a) /\ FloatIsZero(b)))

\* Mutant: the comparison is the type's own equality (result == current)
fallback_atomic_compare_exchange_eq(result, current, new) ==
    IF FloatEq(result, current)
    THEN Body(TRUE, new, "ok", FALSE)
    ELSE Body(FALSE, <<>>, "err", TRUE)

\* Mutant: the new value is written whatever the comparison says
fallback_atomic_compare_exchange_clobber(result, current, new) ==
    IF bytes_of(result) = bytes_of(current)
    THEN Body(TRUE, new, "ok", FALSE)
    ELSE Body(TRUE, new, "err", TRUE)

fallback_atomic_compare_exchange(result, current, new) ==
    IF bytes_of(result) = bytes_of(current)
    THEN Body(TRUE, new, "ok", FALSE)
    ELSE Body(FALSE, <<>>, "err", TRUE)

\* Mutant: the addition saturates at the largest unsigned value
fallback_atomic_add_saturating(result, val) ==
    IF Carry(result, val, Len(result), 0) = 1
    THEN Body(TRUE, [i \in 1 .. Len(result) |-> 255], "val", FALSE)
    ELSE Body(TRUE, WrappingAdd(result, val), "val", FALSE)

fallback_atomic_add(result, val) == Body(TRUE, WrappingAdd(result, val), "val", FALSE)

fallback_atomic_sub(result, val) == Body(TRUE, WrappingSub(result, val), "val", FALSE)

fallback_atomic_and(result, val) == Body(TRUE, BitAnd(result, val), "val", FALSE)

fallback_atomic_or(result, val) == Body(TRUE, BitOr(result, val), "val", FALSE)

\* A body that computes `result | val` where `result ^ val` is meant
fallback_atomic_xor_or(result, val) == Body(TRUE, BitOr(result, val), "val", FALSE)

fallback_atomic_xor(result, val) == Body(TRUE, BitXor(result, val), "val", FALSE)

fallback_atomic_min(T, result, val) == Body(TRUE, CmpMin(T, result, val), "val", FALSE)

fallback_atomic_max(T, result, val) == Body(TRUE, CmpMax(T, result, val), "val", FALSE)

\* A weak form that gives up without comparing
fallback_body_weak_fails(T, o, result) ==
    CASE o.kind = "load"  -> fallback_atomic_load(result)
      [] o.kind = "store" -> fallback_atomic_store(o.val)
      [] o.kind = "swap"  -> fallback_atomic_swap(result, o.val)
      [] o.kind = "compare_exchange"
                          -> fallback_atomic_compare_exchange(result, o.cur, o.val)
      [] o.kind = "compare_exchange_weak"
                          -> Body(FALSE, <<>>, "err", TRUE)
      [] o.kind = "add"   -> fallback_atomic_add(result, o.val)
      [] o.kind = "sub"   -> fallback_atomic_sub(result, o.val)
      [] o.kind = "and"   -> fallback_atomic_and(result, o.val)
      [] o.kind = "or"    -> fallback_atomic_or(result, o.val)
      [] o.kind = "xor"   -> fallback_atomic_xor(result, o.val)
      [] o.kind \in {"min", "umin"} -> fallback_atomic_min(T, result, o.val)
      [] o.kind \in {"max", "umax"} -> fallback_atomic_max(T, result, o.val)

\* The fallback function the dispatcher names for each public operation
fallback_body(T, o, result) ==
    CASE o.kind = "load"  -> fallback_atomic_load(result)
      [] o.kind = "store" -> fallback_atomic_store(o.val)
      [] o.kind = "swap"  -> fallback_atomic_swap(result, o.val)
      [] o.kind \in {"compare_exchange", "compare_exchange_weak"}
                          -> fallback_atomic_compare_exchange(result, o.cur, o.val)
      [] o.kind = "add"   -> fallback_atomic_add(result, o.val)
      [] o.kind = "sub"   -> fallback_atomic_sub(result, o.val)
      [] o.kind = "and"   -> fallback_atomic_and(result, o.val)
      [] o.kind = "or"    -> fallback_atomic_or(result, o.val)
      [] o.kind = "xor"   -> fallback_atomic_xor(result, o.val)
      [] o.kind \in {"min", "umin"} -> fallback_atomic_min(T, result, o.val)
      [] o.kind \in {"max", "umax"} -> fallback_atomic_max(T, result, o.val)

\* atomic_store is the one operation that does not ptr::read first
Reads(kind) == kind # "store"

(***************************************************************************)
(* The native primitives of core::sync::atomic the dispatcher forwards to, *)
(* each one indivisible step on a cell of the matched width.  `spurious`   *)
(* is the weak compare-exchange's licence to fail although the values are  *)
(* equal.                                                                  *)
(***************************************************************************)
ops_native_body(cell, o, old, spurious) ==
    LET signedT == [signed |-> cell \in SignedCells]
        cur == transmute_copy(o.cur, Len(old))
        val == transmute_copy(o.val, Len(old))
    IN  CASE o.kind = "load"  -> Body(FALSE, <<>>, "val", FALSE)
          [] o.kind = "store" -> Body(TRUE, val, "unit", FALSE)
          [] o.kind = "swap"  -> Body(TRUE, val, "val", FALSE)
          [] o.kind = "compare_exchange" ->
                IF old = cur THEN Body(TRUE, val, "ok", FALSE)
                ELSE Body(FALSE, <<>>, "err", TRUE)
          [] o.kind = "compare_exchange_weak" ->
                IF old = cur /\ ~spurious THEN Body(TRUE, val, "ok", FALSE)
                ELSE Body(FALSE, <<>>, "err", TRUE)
          [] o.kind = "add"   -> Body(TRUE, WrappingAdd(old, val), "val", FALSE)
          [] o.kind = "sub"   -> Body(TRUE, WrappingSub(old, val), "val", FALSE)
          [] o.kind = "and"   -> Body(TRUE, BitAnd(old, val), "val", FALSE)
          [] o.kind = "or"    -> Body(TRUE, BitOr(old, val), "val", FALSE)
          [] o.kind = "xor"   -> Body(TRUE, BitXor(old, val), "val", FALSE)
          [] o.kind \in {"min", "umin"} -> Body(TRUE, CmpMin(signedT, old, val), "val", FALSE)
          [] o.kind \in {"max", "umax"} -> Body(TRUE, CmpMax(signedT, old, val), "val", FALSE)

\* stable.rs: compare-exchange is a.compare_and_swap(current, new, success), which
\* returns the previous value, followed by current_val == result_val; the weak
\* form calls the strong one
stable_atomic_compare_exchange(o, old) ==
    LET current_val == transmute_copy(o.cur, Len(old))
        result_val  == old
        stored      == old = current_val
    IN  IF current_val = result_val
        THEN Body(stored, transmute_copy(o.val, Len(old)), "ok", FALSE)
        ELSE Body(stored, transmute_copy(o.val, Len(old)), "err", TRUE)

stable_native_body(cell, o, old, spurious) ==
    IF o.kind \in {"compare_exchange", "compare_exchange_weak"}
    THEN stable_atomic_compare_exchange(o, old)
    ELSE ops_native_body(cell, o, old, FALSE)

\* nightly.rs: the intrinsics atomic_load .. atomic_xor, atomic_cxchg and
\* atomic_cxchgweak
nightly_native_body(cell, o, old, spurious) == ops_native_body(cell, o, old, spurious)

native_body(backend, cell, o, old, spurious) ==
    IF backend = "stable" THEN stable_native_body(cell, o, old, spurious)
    ELSE IF backend = "nightly" THEN nightly_native_body(cell, o, old, spurious)
    ELSE ops_native_body(cell, o, old, spurious)

(***************************************************************************)
(* State.                                                                  *)
(***************************************************************************)
VARIABLES
    flags,      \* the capability flags of the build
    ty,         \* the value type T of the atomic objects
    scenario,   \* the backend of the build and the client program the threads run
    mem,        \* memory: byte address -> byte
    cells,      \* SPINLOCKS: index -> 0 (free) / 1 (locked)
    sync,       \* ghost: per cell, the atomic access that last wrote it and the
                \* ordering that access was given
    pc,         \* per thread: where it is inside the operation it called
    op,         \* per thread: the arguments of the operation in progress
    frame,      \* per thread: the locals of the fallback function
    guard,      \* per thread: the cell lock() selected and its LockGuard
    ret,        \* per thread: what its last operation returned
    abs,        \* ghost: object address -> value, were every operation one step
    expect,     \* ghost: per thread, what the one-step operation returns
    pre,        \* ghost: per thread, the object's bytes when its operation took
                \* the lock or executed the native instruction
    hist,       \* ghost: the operations completed so far, in order of return
    issued,     \* per thread: number of operations the client has called
    local       \* per thread: the client's local variables

vars ==
    <<flags, ty, scenario, mem, cells, sync, pc, op, frame, guard, ret,
      abs, expect, pre, hist, issued, local>>

Threads == DOMAIN pc

\* Addresses of the atomic objects.  80 and 1048640 select the same lock cell
\* (5), 112 another one (7).
Addrs == {80, 112, 1048640}

\* The largest value type modelled: each object owns this many bytes
MaxSize == 24

MemRange == UNION {a .. (a + MaxSize - 1) : a \in Addrs}

Fill(n, b) == [i \in 1 .. n |-> b]

\* ptr::read(dst): the size_of(T) bytes at dst
ValueAt(m, a, n) == [i \in 1 .. n |-> m[a + i - 1]]

NoOp ==
    [kind |-> "none", addr |-> 0, val |-> <<>>, cur |-> <<>>,
     order |-> "Relaxed", failure |-> "Relaxed"]

Op(k, a, v, c, o, f) ==
    [kind |-> k, addr |-> a, val |-> v, cur |-> c, order |-> o, failure |-> f]

NoRet == [tag |-> "none", v |-> <<>>]

NoFrame == [result |-> <<>>, body |-> Body(FALSE, <<>>, "none", FALSE), wpos |-> 0]

\* AtomicUsize::new(0): the cell has not been written since
NoAccess == [acc |-> "new", order |-> "Relaxed"]

NoGuard == [lock |-> 0, order |-> "Relaxed", held |-> FALSE]

\* What an operation whose body is b returns when it read `old`
Returned(b, old) == [tag |-> b.tag, v |-> IF b.tag = "unit" THEN <<>> ELSE old]

\* Client programs whose completed operations are logged in hist
Logged == {"seq", "add", "swap", "counter", "cross"}

\* The state after construction: n threads that have called nothing, every
\* lock cell free, every object holding v0.
InitEngine(n, v0) ==
    /\ mem = [a \in MemRange |->
                LET base == CHOOSE b \in Addrs : a \in b .. (b + MaxSize - 1)
                IN  IF a - base < ty.size THEN v0[a - base + 1] ELSE 0]
    /\ cells = [i \in 0 .. (NLOCKS - 1) |-> 0]
    /\ sync = [i \in 0 .. (NLOCKS - 1) |-> NoAccess]
    /\ pc = [t \in 1 .. n |-> "idle"]
    /\ op = [t \in 1 .. n |-> NoOp]
    /\ frame = [t \in 1 .. n |-> NoFrame]
    /\ guard = [t \in 1 .. n |-> NoGuard]
    /\ ret = [t \in 1 .. n |-> NoRet]
    /\ abs = [a \in Addrs |-> v0]
    /\ expect = [t \in 1 .. n |-> NoRet]
    /\ pre = [t \in 1 .. n |-> <<>>]
    /\ hist = <<>>

\* lock_for_addr(&dst as usize): the address of the caller's pointer variable,
\* which differs from thread to thread, where the address it holds is meant
Call_stack_addr(t, o) ==
    LET fb == route(scenario.backend, o.kind, ty, flags) = "fallback"
    IN  /\ pc[t] = "idle"
        /\ op' = [op EXCEPT ![t] = o]
        /\ pc' = [pc EXCEPT ![t] = IF fb THEN "lock" ELSE "native"]
        /\ guard' = [guard EXCEPT ![t] =
                        IF fb THEN [NoGuard EXCEPT !.lock = lock_for_addr(o.addr + 16 * t)]
                        ELSE NoGuard]
        /\ UNCHANGED <<flags, ty, scenario, mem, cells, sync, frame, ret, abs, expect, pre, hist>>

(***************************************************************************)
(* A call of a public operation: the dispatcher picks the path.            *)
(***************************************************************************)
\* On the fallback path lock() first selects the cell: let lock = lock_for_addr(addr)
Call(t, o) ==
    LET fb == route(scenario.backend, o.kind, ty, flags) = "fallback"
    IN  /\ pc[t] = "idle"
        /\ op' = [op EXCEPT ![t] = o]
        /\ pc' = [pc EXCEPT ![t] = IF fb THEN "lock" ELSE "native"]
        /\ guard' = [guard EXCEPT ![t] =
                        IF fb THEN [NoGuard EXCEPT !.lock = lock_for_addr(o.addr)]
                        ELSE NoGuard]
        /\ UNCHANGED <<flags, ty, scenario, mem, cells, sync, frame, ret, abs, expect, pre, hist>>

\* The return of an operation to its caller
\* (before and after are the object's bytes when the operation took effect
\* and when it returns)
Return(t, r, before, after) ==
    /\ ret' = [ret EXCEPT ![t] = r]
    /\ op' = [op EXCEPT ![t] = NoOp]
    /\ hist' = IF scenario.name \in Logged
               THEN Append(hist, [t |-> t, op |-> op[t], r |-> r,
                                  pre |-> before, post |-> after])
               ELSE hist

(***************************************************************************)
(* fallback.rs: SpinLock::lock, SpinLock::unlock, lock, LockGuard.         *)
(***************************************************************************)
\* Mutant: the lock is taken with the ordering the caller asked for
lock_success_order_as_requested(order) == order

\* The ordering the acquiring compare-and-set uses
lock_success_order(order) == IF order = "SeqCst" THEN "SeqCst" ELSE "Acquire"

\* The ordering the releasing store uses
unlock_order(order) == IF order = "SeqCst" THEN "SeqCst" ELSE "Release"

\* lock() returns the guard and the function body starts.  This is where the
\* one-step version of the operation takes effect on abs.
EnterBody(t) ==
    LET o == op[t]
        b == fallback_body(ty, o, abs[o.addr])
    IN  /\ guard' = [guard EXCEPT ![t] = [lock |-> @.lock, order |-> o.order, held |-> TRUE]]
        /\ frame' = [frame EXCEPT ![t] =
                        IF Reads(o.kind) THEN NoFrame
                        ELSE [NoFrame EXCEPT !.body = fallback_body(ty, o, <<>>)]]
        /\ pc' = [pc EXCEPT ![t] = IF Reads(o.kind) THEN "read" ELSE "write"]
        /\ abs' = [abs EXCEPT ![o.addr] = IF b.write THEN b.new ELSE @]
        /\ expect' = [expect EXCEPT ![t] = Returned(b, abs[o.addr])]
        /\ pre' = [pre EXCEPT ![t] = ValueAt(mem, o.addr, ty.size)]
        /\ UNCHANGED <<flags, ty, scenario, mem, op, ret, hist, issued, local>>

\* Mutant: the cell is written 1 whatever it held (a store, not a compare-and-set)
LockCasOk_blind(t) ==
    /\ pc[t] = "lock"
    /\ cells' = [cells EXCEPT ![guard[t].lock] = 1]
    /\ sync' = [sync EXCEPT ![guard[t].lock] =
                  [acc |-> "store", order |-> lock_success_order(op[t].order)]]
    /\ EnterBody(t)

\* Mutant: the guard is dropped at once (let _ = lock(..)), the cell is free again
\* before the body runs
LockCasOk_dropped(t) ==
    /\ pc[t] = "lock"
    /\ cells[guard[t].lock] = 0
    /\ cells' = cells
    /\ sync' = sync
    /\ EnterBody(t)

\* compare_exchange_weak(0, 1, ..) succeeded: the loop ends
LockCasOk(t) ==
    /\ pc[t] = "lock"
    /\ cells[guard[t].lock] = 0
    /\ cells' = [cells EXCEPT ![guard[t].lock] = 1]
    /\ sync' = [sync EXCEPT ![guard[t].lock] =
                  [acc |-> "compare_exchange_weak",
                   order |-> lock_success_order(op[t].order)]]
    /\ EnterBody(t)

\* Mutant: a failed compare-and-set ends the loop like a successful one
LockCasFail_enters(t) ==
    /\ pc[t] = "lock"
    /\ cells' = cells
    /\ sync' = sync
    /\ EnterBody(t)

\* compare_exchange_weak(0, 1, ..) failed, because the cell is locked or
\* spuriously: the thread enters the inner read loop.
LockCasFail(t) ==
    /\ pc[t] = "lock"
    /\ pc' = [pc EXCEPT ![t] = "spin"]
    /\ UNCHANGED <<flags, ty, scenario, mem, cells, sync, op, frame, guard, ret,
                   abs, expect, pre, hist, issued, local>>

\* Mutant: once the load sees 0 the thread goes on without retrying the
\* compare-and-set
SpinLoad_enters(t) ==
    /\ pc[t] = "spin"
    /\ cells[guard[t].lock] = 0
    /\ cells' = cells
    /\ sync' = sync
    /\ EnterBody(t)

\* while self.0.load(Relaxed) != 0 { spin_loop() }: the loop ends when the
\* load sees 0 (a load that sees 1 changes nothing)
SpinLoad(t) ==
    /\ pc[t] = "spin"
    /\ cells[guard[t].lock] = 0
    /\ pc' = [pc EXCEPT ![t] = "lock"]
    /\ UNCHANGED <<flags, ty, scenario, mem, cells, sync, op, frame, guard, ret,
                   abs, expect, pre, hist, issued, local>>

\* Mutant: the guard keeps the success ordering when the comparison fails
ReadStep_keeps_order(t) ==
    LET o == op[t]
        n == Len(frame[t].result)
        k == Min2(n + SIZEOF_USIZE, ty.size)
        result == frame[t].result \o [j \in 1 .. (k - n) |-> mem[o.addr + n + j - 1]]
        b == fallback_body(ty, o, result)
    IN  /\ pc[t] = "read"
        /\ IF k < ty.size
           THEN /\ frame' = [frame EXCEPT ![t].result = result]
                /\ UNCHANGED <<pc, guard>>
           ELSE /\ frame' = [frame EXCEPT ![t] = [result |-> result, body |-> b, wpos |-> 0]]
                /\ guard' = guard
                /\ pc' = [pc EXCEPT ![t] = IF b.write THEN "write" ELSE "unlock"]
        /\ UNCHANGED <<flags, ty, scenario, mem, cells, sync, op, ret, abs, expect,
                       pre, hist, issued, local>>


\* ptr::read(dst), one machine word per step; after the last word the
\* function computes what it will write and return
ReadStep(t) ==
    LET o == op[t]
        n == Len(frame[t].result)
        k == Min2(n + SIZEOF_USIZE, ty.size)
        result == frame[t].result \o [j \in 1 .. (k - n) |-> mem[o.addr + n + j - 1]]
        b == fallback_body(ty, o, result)
    IN  /\ pc[t] = "read"
        /\ IF k < ty.size
           THEN /\ frame' = [frame EXCEPT ![t].result = result]
                /\ UNCHANGED <<pc, guard>>
           ELSE /\ frame' = [frame EXCEPT ![t] = [result |-> result, body |-> b, wpos |-> 0]]
                /\ guard' = [guard EXCEPT ![t].order = IF b.fail THEN o.failure ELSE @]
                /\ pc' = [pc EXCEPT ![t] = IF b.write THEN "write" ELSE "unlock"]
        /\ UNCHANGED <<flags, ty, scenario, mem, cells, sync, op, ret, abs, expect,
                       pre, hist, issued, local>>

\* Mutant: every store is a whole machine word, padded with 0xFF when the
\* value is shorter
WriteStep_whole_word(t) ==
    LET o == op[t]
        n == frame[t].wpos
        k == Min2(n + SIZEOF_USIZE, ty.size)
    IN  /\ pc[t] = "write"
        /\ mem' = [a \in MemRange |->
                     IF a \in (o.addr + n) .. (o.addr + k - 1)
                     THEN frame[t].body.new[a - o.addr + 1]
                     ELSE IF a \in (o.addr + k) .. (o.addr + n + SIZEOF_USIZE - 1)
                     THEN 255
                     ELSE mem[a]]
        /\ frame' = [frame EXCEPT ![t].wpos = k]
        /\ pc' = [pc EXCEPT ![t] = IF k < ty.size THEN "write" ELSE "unlock"]
        /\ UNCHANGED <<flags, ty, scenario, cells, sync, op, guard, ret, abs, expect,
                       pre, hist, issued, local>>

\* ptr::write(dst, new), one machine word per step
WriteStep(t) ==
    LET o == op[t]
        n == frame[t].wpos
        k == Min2(n + SIZEOF_USIZE, ty.size)
    IN  /\ pc[t] = "write"
        /\ mem' = [a \in MemRange |->
                     IF a \in (o.addr + n) .. (o.addr + k - 1)
                     THEN frame[t].body.new[a - o.addr + 1] ELSE mem[a]]
        /\ frame' = [frame EXCEPT ![t].wpos = k]
        /\ pc' = [pc EXCEPT ![t] = IF k < ty.size THEN "write" ELSE "unlock"]
        /\ UNCHANGED <<flags, ty, scenario, cells, sync, op, guard, ret, abs, expect,
                       pre, hist, issued, local>>

\* Mutant: the exit of a failed compare-exchange does not drop the guard
Unlock_not_on_err(t) ==
    /\ pc[t] = "unlock"
    /\ cells' = [cells EXCEPT ![guard[t].lock] = IF frame[t].body.fail THEN 1 ELSE 0]
    /\ sync' = [sync EXCEPT ![guard[t].lock] =
                  IF frame[t].body.fail THEN @
                  ELSE [acc |-> "store", order |-> unlock_order(guard[t].order)]]
    /\ guard' = [guard EXCEPT ![t] = NoGuard]
    /\ frame' = [frame EXCEPT ![t] = NoFrame]
    /\ pc' = [pc EXCEPT ![t] = "idle"]
    /\ Return(t, Returned(frame[t].body, frame[t].result), pre[t],
              ValueAt(mem, op[t].addr, ty.size))
    /\ UNCHANGED <<flags, ty, scenario, mem, abs, expect, pre, issued, local>>

\* The guard is leaked (mem::forget): the function returns and the cell stays 1
Unlock_leak(t) ==
    /\ pc[t] = "unlock"
    /\ cells' = cells
    /\ sync' = sync
    /\ guard' = [guard EXCEPT ![t] = NoGuard]
    /\ frame' = [frame EXCEPT ![t] = NoFrame]
    /\ pc' = [pc EXCEPT ![t] = "idle"]
    /\ Return(t, Returned(frame[t].body, frame[t].result), pre[t],
              ValueAt(mem, op[t].addr, ty.size))
    /\ UNCHANGED <<flags, ty, scenario, mem, abs, expect, pre, issued, local>>

\* LockGuard::drop -> SpinLock::unlock: store 0; then the function returns
Unlock(t) ==
    /\ pc[t] = "unlock"
    /\ cells' = [cells EXCEPT ![guard[t].lock] = 0]
    /\ sync' = [sync EXCEPT ![guard[t].lock] =
                  [acc |-> "store", order |-> unlock_order(guard[t].order)]]
    /\ guard' = [guard EXCEPT ![t] = NoGuard]
    /\ frame' = [frame EXCEPT ![t] = NoFrame]
    /\ pc' = [pc EXCEPT ![t] = "idle"]
    /\ Return(t, Returned(frame[t].body, frame[t].result), pre[t],
              ValueAt(mem, op[t].addr, ty.size))
    /\ UNCHANGED <<flags, ty, scenario, mem, abs, expect, pre, issued, local>>

(***************************************************************************)
(* ops.rs: the native path, one atomic instruction.                        *)
(***************************************************************************)
\* failure is stronger than success, as the toolchains before 1.64 decide it
FailureStronger(success, failure) ==
    \/ failure = "SeqCst" /\ success # "SeqCst"
    \/ failure = "Acquire" /\ success \in {"Relaxed", "Release"}

\* The orderings the native primitive panics on before it touches the cell:
\* a load with Release or AcqRel, a store with Acquire or AcqRel, a
\* compare-exchange whose failure ordering is Release or AcqRel, or (strict:
\* toolchains before 1.64) stronger than the success ordering.  stable.rs
\* compare-exchanges with compare_and_swap, which takes every ordering;
\* nightly.rs panics on every pair outside its table of nine, which are the
\* pairs that are neither.
native_rejects(backend, o, strict) ==
    CASE o.kind = "load"  -> o.order \in {"Release", "AcqRel"}
      [] o.kind = "store" -> o.order \in {"Acquire", "AcqRel"}
      [] o.kind \in {"compare_exchange", "compare_exchange_weak"} ->
            /\ backend # "stable"
            /\ \/ o.failure \in {"Release", "AcqRel"}
               \/ (strict \/ backend = "nightly") /\ FailureStronger(o.order, o.failure)
      [] OTHER -> FALSE

Panic == [tag |-> "panic", v |-> <<>>]

\* An atomic instruction of size_of(T) bytes through a pointer that is only
\* guaranteed align_of(T): undefined behaviour.  The instruction either
\* works as on an aligned cell or traps.
Misaligned(T) == T.align < T.size

Fault == [tag |-> "fault", v |-> <<>>]

NativeStep(t) ==
    LET o == op[t]
        cell == route(scenario.backend, o.kind, ty, flags)
        old == ValueAt(mem, o.addr, ty.size)
    IN  /\ pc[t] = "native"
        /\ \E spurious \in (IF o.kind = "compare_exchange_weak" THEN BOOLEAN ELSE {FALSE}),
              strict \in (IF o.kind \in {"compare_exchange", "compare_exchange_weak"}
                          THEN BOOLEAN ELSE {FALSE}),
              trap \in (IF Misaligned(ty) THEN BOOLEAN ELSE {FALSE}) :
             LET b  == native_body(scenario.backend, cell, o, old, spurious)
                 ab == native_body(scenario.backend, cell, o, abs[o.addr], spurious)
             IN  IF native_rejects(scenario.backend, o, strict)
                 THEN /\ Return(t, Panic, old, old)
                      /\ expect' = [expect EXCEPT ![t] = Panic]
                      /\ pc' = [pc EXCEPT ![t] = "panicked"]
                      /\ UNCHANGED <<mem, abs, pre>>
                 ELSE IF trap
                 THEN /\ Return(t, Fault, old, old)
                      /\ expect' = [expect EXCEPT ![t] = Returned(ab, abs[o.addr])]
                      /\ pc' = [pc EXCEPT ![t] = "panicked"]
                      /\ UNCHANGED <<mem, abs, pre>>
                 ELSE /\ mem' = [a \in MemRange |->
                                   IF b.write /\ a \in o.addr .. (o.addr + ty.size - 1)
                                   THEN b.new[a - o.addr + 1] ELSE mem[a]]
                      /\ Return(t, Returned(b, transmute_copy(old, ty.size)), old,
                                IF b.write THEN b.new ELSE old)
                      /\ pre' = [pre EXCEPT ![t] = old]
                      /\ abs' = [abs EXCEPT ![o.addr] = IF ab.write THEN ab.new ELSE @]
                      /\ expect' = [expect EXCEPT ![t] = Returned(ab, abs[o.addr])]
                      /\ pc' = [pc EXCEPT ![t] = "idle"]
        /\ UNCHANGED <<flags, ty, scenario, cells, sync, frame, guard, issued, local>>

(***************************************************************************)
(* Specification Spec: two threads issue operations concurrently on        *)
(* objects of one type, on a build with every capability flag set or with  *)
(* none.  The kinds of operation the threads mix are fixed per behaviour.  *)
(***************************************************************************)
MixThreads == {1, 2}

\* Number of operations the threads issue, all together
MixCalls == 2

RECURSIVE Sum(_, _)
\* the sum of f over the set S of its arguments
Sum(f, S) ==
    IF S = {} THEN 0
    ELSE LET x == CHOOSE y \in S : TRUE IN f[x] + Sum(f, S \ {x})

\* (type, every flag set?)
MixBuilds == {<<T_u8, FALSE>>, <<T_u8, TRUE>>, <<T_struct24, FALSE>>}

IntKinds == {"add", "sub", "and", "or", "xor", "min", "max", "umin", "umax"}

\* Two objects at different addresses that select the same lock cell
MixPrograms ==
    {[name |-> "mix", backend |-> "ops", kinds |-> {"load", "store", "swap"}, addrs |-> {80, 1048640}],
     [name |-> "mix", backend |-> "ops",
      kinds |-> {"load", "compare_exchange", "compare_exchange_weak"}, addrs |-> {80}],
     [name |-> "mix", backend |-> "ops", kinds |-> {"store", "add", "sub"}, addrs |-> {80}],
     [name |-> "mix", backend |-> "ops", kinds |-> {"swap", "and", "or", "xor"}, addrs |-> {80}],
     [name |-> "mix", backend |-> "ops", kinds |-> {"add", "min", "max", "umin", "umax"}, addrs |-> {80}]}

MixValues(T) == {Fill(T.size, 1), Fill(T.size, 255)}

\* The calls a thread may make: for one-operand kinds every value, for the
\* compare-exchanges every (current, new) with current possibly the initial value
Menu(T, sc) ==
    LET V == MixValues(T)
        K == {k \in sc.kinds : k \in IntKinds => T.int}
    IN  {Op(k, a, <<>>, <<>>, "SeqCst", "SeqCst") : k \in K \cap {"load"}, a \in sc.addrs}
        \cup {Op(k, a, v, <<>>, "SeqCst", "SeqCst") :
                k \in K \ {"load", "compare_exchange", "compare_exchange_weak"},
                a \in sc.addrs, v \in V}
        \cup {Op(k, a, Fill(T.size, 255), c, "SeqCst", "SeqCst") :
                k \in K \cap {"compare_exchange", "compare_exchange_weak"},
                a \in sc.addrs, c \in {Fill(T.size, 0), Fill(T.size, 1)}}

Init ==
    /\ scenario \in MixPrograms
    /\ \E b \in MixBuilds : ty = b[1] /\ flags = AllFlags(b[2])
    /\ scenario.kinds \cap IntKinds # {} => ty.int
    /\ InitEngine(Cardinality(MixThreads), Fill(ty.size, 0))
    /\ issued = [t \in MixThreads |-> 0]
    /\ local = [t \in MixThreads |-> <<>>]

MixCall(t) ==
    /\ Sum(issued, Threads) < MixCalls
    /\ \E o \in Menu(ty, scenario) : Call(t, o)
    /\ issued' = [issued EXCEPT ![t] = @ + 1]
    /\ UNCHANGED local

Next ==
    \/ \E t \in Threads : MixCall(t)
    \/ \E t \in Threads : LockCasOk(t)
    \/ \E t \in Threads : LockCasFail(t)
    \/ \E t \in Threads : SpinLoad(t)
    \/ \E t \in Threads : ReadStep(t)
    \/ \E t \in Threads : WriteStep(t)
    \/ \E t \in Threads : Unlock(t)
    \/ \E t \in Threads : NativeStep(t)

Spec == Init /\ [][Next]_vars

(***************************************************************************)
(* Properties of Spec.                                                     *)
(***************************************************************************)
\* Every public operation on the type is routed to the fallback engine
AllFallback ==
    \A k \in OpKinds : route(scenario.backend, k, ty, flags) = "fallback"

\* The thread is between lock() returning and the guard's drop
InCS(t) == pc[t] \in {"read", "write", "unlock"}

\* Some operation on the object at a is between taking effect and its last write
InFlight(a) == \E t \in Threads : pc[t] \in {"read", "write"} /\ op[t].addr = a

\* C1: the fallback operations refine their one-step versions: an operation
\* returns what the one-step operation returned at the moment the lock was
\* taken, and whenever no operation on an object is between its lock and its
\* last write, the object's bytes are those the one-step operations left.
C1_FallbackRefinesAtomic ==
    AllFallback =>
        /\ \A t \in Threads :
             (pc[t] = "idle" /\ ret[t].tag # "none") => ret[t] = expect[t]
        /\ \A a \in Addrs :
             ~InFlight(a) => ValueAt(mem, a, ty.size) = abs[a]

\* Two threads have both returned from fallback operations on a 24-byte
\* struct, one of them having read what the other wrote
C1_Witness ==
    /\ AllFallback
    /\ ty = T_struct24
    /\ \A t \in Threads : pc[t] = "idle" /\ issued[t] = 1
    /\ \E t \in Threads : ret[t].tag = "val" /\ ret[t].v = Fill(ty.size, 255)

\* C2: every lock cell is 0 or 1 and is held by at most one thread; a thread
\* is inside the critical section of a cell only with its own guard, taken by
\* its own successful compare-and-set, and then the cell is 1.
C2_MutualExclusion ==
    /\ \A i \in 0 .. (NLOCKS - 1) :
         LET H == {t \in Threads : InCS(t) /\ guard[t].lock = i}
         IN  /\ cells[i] \in {0, 1}
             /\ Cardinality(H) <= 1
             /\ H # {} => cells[i] = 1
    /\ \A t \in Threads : InCS(t) <=> guard[t].held

\* One thread is inside the critical section of a cell while another, working
\* on a different address that selects the same cell, waits in the read loop
C2_Witness ==
    \E t1, t2 \in Threads :
        /\ InCS(t1)
        /\ pc[t2] = "spin"
        /\ guard[t2].lock = guard[t1].lock
        /\ op[t1].addr # op[t2].addr

\* All bytes of v are the same
Uniform(v) == \A i, j \in DOMAIN v : v[i] = v[j]

\* C4: every value written in Spec has all its bytes equal and no two values
\* share a byte, so a value read is written by one single operation (or is the
\* initial value) exactly when its bytes are all equal.  For a value of
\* several machine words on the fallback path, what ptr::read collected and
\* what an operation returned is never a mixture.
C4_NoTornValue ==
    (AllFallback /\ ty.size > SIZEOF_USIZE) =>
        \A t \in Threads :
            /\ Len(frame[t].result) = ty.size => Uniform(frame[t].result)
            /\ Uniform(ret[t].v)

\* A load, swap or compare-exchange has read all three words of a 24-byte
\* value while the other thread waits for the same cell to store or swap
C4_Witness ==
    /\ ty = T_struct24
    /\ \E t1, t2 \in Threads :
        /\ op[t1].kind \in {"load", "swap", "compare_exchange"}
        /\ pc[t1] \in {"write", "unlock"}
        /\ Len(frame[t1].result) = ty.size
        /\ op[t2].kind \in {"store", "swap"}
        /\ op[t2].addr = op[t1].addr
        /\ pc[t2] = "spin"

(***************************************************************************)
(* Specification SeqSpec: one thread calls operations one after the other  *)
(* on one object.  The object's type and initial value, the build and the  *)
(* kinds of operation are fixed per behaviour; every completed call is     *)
(* logged in hist with the object's bytes before and after it.             *)
(***************************************************************************)
\* Number of operations the thread calls
SeqCalls == 2

CxKinds == {"compare_exchange", "compare_exchange_weak"}

SeqPrograms ==
    {[name |-> "seq", backend |-> b, kinds |-> CxKinds, addrs |-> {80}] :
        b \in {"ops", "stable"}}
    \cup {[name |-> "seq", backend |-> "ops", kinds |-> {"store", "load"}, addrs |-> {80}],
          [name |-> "seq", backend |-> "ops", kinds |-> {"add", "sub"}, addrs |-> {112}]}

\* (type, flags) of the builds a program is run on
SeqBuilds(sc) ==
    IF sc.kinds = CxKinds
    THEN (IF sc.backend = "stable"
          THEN {<<T_f32, StableFlags>>, <<T_f64, StableFlags>>}
          ELSE {<<T_f32, AllFlags(TRUE)>>, <<T_f32, AllFlags(FALSE)>>,
                <<T_f64, AllFlags(TRUE)>>})
    ELSE IF sc.kinds = {"store", "load"}
    THEN ({T_u8, T_u16, T_u32, T_u64, T_packed2, T_packed4, T_packed8}
            \X {AllFlags(TRUE), AllFlags(FALSE)})
         \cup ({T_u64, T_packed8} \X {OnlyFlags({"usize"})})
    ELSE {T_u8, T_i8, T_u16, T_u32, T_u64} \X {AllFlags(TRUE), AllFlags(FALSE)}

\* Values whose bytes all differ
RampUp(n) == [i \in 1 .. n |-> i]
RampDown(n) == [i \in 1 .. n |-> 256 - i]

\* The integer 1 in n bytes
One(n) == [i \in 1 .. n |-> IF i = 1 THEN 1 ELSE 0]

\* Integers at the edges of the unsigned and of the signed range: 0, 1,
\* 2^w - 1, 2^(w-1) - 1, 2^(w-1), 255
EdgeValues(n) ==
    {Fill(n, 0),
     One(n),
     Fill(n, 255),
     [i \in 1 .. n |-> IF i = n THEN 127 ELSE 255],
     [i \in 1 .. n |-> IF i = n THEN 128 ELSE 0],
     [i \in 1 .. n |-> IF i = 1 THEN 255 ELSE 0]}

FloatValues(n) == {FloatPosZero(n), FloatNegZero(n), FloatNaN(n)}

\* The values the object may hold at the start
SeqValues(T, sc) ==
    IF sc.kinds = CxKinds THEN FloatValues(T.size)
    ELSE IF sc.kinds = {"store", "load"} THEN {Fill(T.size, 0)}
    ELSE EdgeValues(T.size)

\* The calls the thread may make
SeqMenu(T, sc) ==
    LET n == T.size
        a == CHOOSE x \in sc.addrs : TRUE
    IN  IF sc.kinds = CxKinds
        THEN {Op("compare_exchange", a, new, cur, "SeqCst", "SeqCst") :
                cur \in FloatValues(n), new \in FloatValues(n)}
             \cup {Op("compare_exchange", a, FloatOne(n), FloatPosZero(n), o[1], o[2]) :
                     o \in {<<"Acquire", "Relaxed">>, <<"SeqCst", "Release">>,
                            <<"Relaxed", "SeqCst">>}}
             \cup {Op("compare_exchange_weak", a, FloatOne(n), cur, "AcqRel", "Acquire") :
                     cur \in FloatValues(n)}
        ELSE IF sc.kinds = {"store", "load"}
        THEN {Op("store", a, v, <<>>, "Relaxed", "Relaxed") : v \in {RampUp(n), RampDown(n)}}
             \cup {Op("load", a, <<>>, <<>>, o, o) : o \in {"Relaxed", "Release"}}
        ELSE {Op(k, a, v, <<>>, "SeqCst", "SeqCst") :
                k \in {"add", "sub"},
                v \in {One(n), Fill(n, 255), [i \in 1 .. n |-> IF i = n THEN 128 ELSE 0]}}

SeqInit ==
    /\ scenario \in SeqPrograms
    /\ \E b \in SeqBuilds(scenario) : ty = b[1] /\ flags = b[2]
    /\ \E v0 \in SeqValues(ty, scenario) : InitEngine(1, v0)
    /\ issued = [t \in {1} |-> 0]
    /\ local = [t \in {1} |-> <<>>]

SeqCall(t) ==
    /\ issued[t] < SeqCalls
    /\ \E o \in SeqMenu(ty, scenario) : Call(t, o)
    /\ issued' = [issued EXCEPT ![t] = @ + 1]
    /\ UNCHANGED local

SeqNext ==
    \/ \E t \in Threads : SeqCall(t)
    \/ \E t \in Threads : LockCasOk(t)
    \/ \E t \in Threads : LockCasFail(t)
    \/ \E t \in Threads : SpinLoad(t)
    \/ \E t \in Threads : ReadStep(t)
    \/ \E t \in Threads : WriteStep(t)
    \/ \E t \in Threads : Unlock(t)
    \/ \E t \in Threads : NativeStep(t)

SeqSpec == SeqInit /\ [][SeqNext]_vars

(***************************************************************************)
(* Properties of SeqSpec.                                                  *)
(***************************************************************************)
\* The operation of the logged call h was forwarded to a native primitive
OnNative(h) == route(scenario.backend, h.op.kind, ty, flags) # "fallback"

\* C5: a compare_exchange that returns reports success exactly when the
\* object's bytes equal the bytes of `current`, one by one, and then the
\* object holds `new`; otherwise the object holds what it held.  This holds
\* for values the type's own equality treats differently (+0.0 / -0.0, NaN),
\* on the fallback path and on the native paths of ops.rs and stable.rs.
C5_BitwiseCompareExchange ==
    \A i \in DOMAIN hist :
        LET h == hist[i]
            same == \A j \in 1 .. ty.size : h.pre[j] = h.op.cur[j]
        IN  (h.op.kind = "compare_exchange" /\ h.r.tag # "panic") =>
                /\ h.r.tag = "ok" <=> same
                /\ h.post = IF same THEN h.op.val ELSE h.pre

\* On the fallback path a NaN matched itself, and then +0.0 did not match
\* -0.0 although the type's equality holds them equal
C5_Witness ==
    /\ ty = T_f32
    /\ AllFallback
    /\ pc[1] = "idle"
    /\ Len(hist) = 2
    /\ hist[1].op.kind = "compare_exchange"
    /\ hist[1].pre = FloatNaN(4) /\ hist[1].op.cur = FloatNaN(4)
    /\ ~FloatEq(hist[1].pre, hist[1].op.cur)
    /\ hist[1].r.tag = "ok"
    /\ hist[2].op.kind = "compare_exchange"
    /\ hist[2].pre = FloatNegZero(4) /\ hist[2].op.cur = FloatPosZero(4)
    /\ FloatEq(hist[2].pre, hist[2].op.cur)
    /\ hist[2].r.tag = "err"

\* The ordering pairs every toolchain's compare_exchange accepts
ValidPair(success, failure) ==
    failure \notin {"Release", "AcqRel"} /\ ~FailureStronger(success, failure)

\* C6: a compare-exchange (strong or weak) that reports failure leaves the
\* object's bytes as they were; the value in the result is the object's value
\* just before the operation, equal to `current` in Ok; in Err it differs from
\* `current` (but for the native weak form, which may fail spuriously); and a
\* mismatch under a valid ordering pair returns Err, it does not panic.
C6_FailedCompareExchange ==
    \A i \in DOMAIN hist :
        LET h == hist[i]
        IN  h.op.kind \in CxKinds =>
                /\ h.r.tag = "err" => h.post = h.pre
                /\ h.r.tag \in {"ok", "err"} => h.r.v = h.pre
                /\ h.r.tag = "ok" => h.r.v = h.op.cur
                /\ (h.r.tag = "err" /\ ~(h.op.kind = "compare_exchange_weak" /\ OnNative(h)))
                        => h.r.v # h.op.cur
                /\ (h.pre # h.op.cur /\ ValidPair(h.op.order, h.op.failure))
                        => h.r.tag = "err"

\* A compare-exchange succeeded and the next one, natively, failed on a
\* mismatch and returned the value the first had written
C6_Witness ==
    /\ Len(hist) = 2
    /\ OnNative(hist[2])
    /\ hist[1].op.kind \in CxKinds /\ hist[1].r.tag = "ok"
    /\ hist[2].op.kind = "compare_exchange" /\ hist[2].r.tag = "err"
    /\ hist[2].r.v = hist[1].op.val
    /\ hist[2].op.val # hist[2].pre
    /\ ValueAt(mem, hist[2].op.addr, ty.size) = hist[1].op.val

\* C8: a Relaxed load that follows a Relaxed store of v returns v, byte for
\* byte, and leaves the object's bytes as they were, for the sizes 1, 2, 4, 8
\* and the pointer width, on a type that is natively eligible and on one that
\* is not.
C8_StoreLoadRoundTrip ==
    \A i \in DOMAIN hist :
        (/\ i > 1
         /\ hist[i - 1].op.kind = "store" /\ hist[i - 1].op.order = "Relaxed"
         /\ hist[i].op.kind = "load" /\ hist[i].op.order = "Relaxed")
            => /\ hist[i].r = [tag |-> "val", v |-> hist[i - 1].op.val]
               /\ hist[i].pre = hist[i - 1].op.val
               /\ hist[i].post = hist[i - 1].op.val

\* An 8-byte value of alignment 1 went through the fallback engine on a build
\* with every flag set and came back
C8_Witness ==
    /\ ty = T_packed8
    /\ flags = AllFlags(TRUE)
    /\ Len(hist) = 2
    /\ hist[1].op.kind = "store" /\ hist[1].op.val = RampDown(8)
    /\ hist[2].op.kind = "load" /\ hist[2].op.order = "Relaxed"
    /\ hist[2].r.v = RampDown(8)

RECURSIVE ToIntFrom(_, _)
ToIntFrom(v, i) == IF i > Len(v) THEN 0 ELSE v[i] + 256 * ToIntFrom(v, i + 1)

\* The unsigned integer a little-endian byte sequence stands for
ToInt(v) == ToIntFrom(v, 1)

\* C10: add and sub return the prior value; the object then holds
\* (prior + operand) mod 2^w, respectively (prior - operand) mod 2^w (checked
\* as integers for w = 8 and w = 16); neither panics; and a sub of x that
\* follows an add of x leaves the value the object held before the add.
C10_WrappingAddSub ==
    \A i \in DOMAIN hist :
        LET h == hist[i]
            w == 8 * ty.size
        IN  h.op.kind \in {"add", "sub"} =>
                /\ h.r = [tag |-> "val", v |-> h.pre]
                /\ Len(h.post) = ty.size
                /\ (ty.size <= 2 /\ h.op.kind = "add") =>
                        ToInt(h.post) = (ToInt(h.pre) + ToInt(h.op.val)) % (2 ^ w)
                /\ (ty.size <= 2 /\ h.op.kind = "sub") =>
                        ToInt(h.post) = (ToInt(h.pre) - ToInt(h.op.val)) % (2 ^ w)
                /\ (i > 1 /\ h.op.kind = "sub" /\ hist[i - 1].op.kind = "add"
                          /\ hist[i - 1].op.val = h.op.val)
                        => h.post = hist[i - 1].pre

\* On the fallback path an add on a 16-bit value overflowed and wrapped, and
\* the sub of the same operand underflowed back
C10_Witness ==
    /\ ty = T_u16
    /\ AllFallback
    /\ Len(hist) = 2
    /\ hist[1].op.kind = "add"
    /\ ToInt(hist[1].pre) + ToInt(hist[1].op.val) >= 65536
    /\ hist[2].op.kind = "sub"
    /\ hist[2].op.val = hist[1].op.val
    /\ ToInt(hist[2].pre) < ToInt(hist[2].op.val)
    /\ ValueAt(mem, hist[2].op.addr, ty.size) = hist[1].pre

(***************************************************************************)
(* Specification AddSpec: AddThreads threads each call add(loc, 1, SeqCst) *)
(* AddK times on one object that starts at 0, on a build without flags     *)
(* (fallback path) or with every flag (native path).                       *)
(***************************************************************************)
AddThreads == 2

AddK == 2

AddBuilds ==
    {<<T_u8, AllFlags(FALSE)>>, <<T_u8, AllFlags(TRUE)>>,
     <<T_u32, AllFlags(FALSE)>>, <<T_u32, AllFlags(TRUE)>>}

AddInit ==
    /\ scenario = [name |-> "add", backend |-> "ops", kinds |-> {"add"}, addrs |-> {80}]
    /\ \E b \in AddBuilds : ty = b[1] /\ flags = b[2]
    /\ InitEngine(AddThreads, Fill(ty.size, 0))
    /\ issued = [t \in 1 .. AddThreads |-> 0]
    /\ local = [t \in 1 .. AddThreads |-> <<>>]

AddCall(t) ==
    /\ issued[t] < AddK
    /\ Call(t, Op("add", 80, One(ty.size), <<>>, "SeqCst", "SeqCst"))
    /\ issued' = [issued EXCEPT ![t] = @ + 1]
    /\ UNCHANGED local

AddNext ==
    \/ \E t \in Threads : AddCall(t)
    \/ \E t \in Threads : LockCasOk(t)
    \/ \E t \in Threads : LockCasFail(t)
    \/ \E t \in Threads : SpinLoad(t)
    \/ \E t \in Threads : ReadStep(t)
    \/ \E t \in Threads : WriteStep(t)
    \/ \E t \in Threads : Unlock(t)
    \/ \E t \in Threads : NativeStep(t)

AddSpec == AddInit /\ [][AddNext]_vars

\* Every thread has made its AddK calls and has returned from the last
AddDone == \A t \in Threads : pc[t] = "idle" /\ issued[t] = AddK

\* C3: no two adds return the same prior value, and once all threads have
\* finished the object holds AddThreads * AddK and the prior values returned
\* are 0 .. AddThreads * AddK - 1, each by one add.
C3_NoLostAdd ==
    /\ \A i, j \in DOMAIN hist :
         i # j => hist[i].r.v # hist[j].r.v
    /\ \A i \in DOMAIN hist : hist[i].r.tag = "val"
    /\ AddDone =>
         /\ ToInt(ValueAt(mem, 80, ty.size)) = AddThreads * AddK
         /\ Len(hist) = AddThreads * AddK
         /\ {ToInt(hist[i].r.v) : i \in DOMAIN hist} = 0 .. (AddThreads * AddK - 1)

\* All threads have finished on the fallback path, and some thread's two adds
\* returned prior values that are not consecutive: another thread's add took
\* effect between them
C3_Witness ==
    /\ AddDone
    /\ AllFallback
    /\ \E i, j \in DOMAIN hist :
         /\ hist[i].t = hist[j].t
         /\ ToInt(hist[j].r.v) > ToInt(hist[i].r.v) + 1

(***************************************************************************)
(* Specification CounterSpec: a build without flags, a 24-byte struct      *)
(* whose first field is a counter.  Two threads run                        *)
(*     loop { old = load(loc); if old.counter >= CounterN { break }        *)
(*            compare_exchange(loc, old, old with counter + 1) }           *)
(***************************************************************************)
CounterThreads == {1, 2}

\* The number of increments after which the threads stop
CounterN == 2

\* The struct whose counter field is c (the other two fields never change)
Counter24(c) ==
    [i \in 1 .. 24 |-> IF i = 1 THEN c ELSE IF i = 9 THEN 170 ELSE IF i = 17 THEN 85 ELSE 0]

CounterOf(v) == v[1]

CounterInit ==
    /\ scenario = [name |-> "counter", backend |-> "ops",
                   kinds |-> {"load", "compare_exchange"}, addrs |-> {80}]
    /\ ty = T_struct24
    /\ flags = AllFlags(FALSE)
    /\ InitEngine(Cardinality(CounterThreads), Counter24(0))
    /\ issued = [t \in CounterThreads |-> 0]
    /\ local = [t \in CounterThreads |-> "load"]

\* old = load(loc)
CounterLoad(t) ==
    /\ local[t] = "load"
    /\ Call(t, Op("load", 80, <<>>, <<>>, "SeqCst", "SeqCst"))
    /\ issued' = [issued EXCEPT ![t] = @ + 1]
    /\ local' = [local EXCEPT ![t] = "cas"]

\* the loop's exit test and the compare_exchange on the value just loaded
CounterCas(t) ==
    LET old == ret[t].v
    IN  /\ local[t] = "cas"
        /\ pc[t] = "idle"
        /\ IF CounterOf(old) >= CounterN
           THEN /\ local' = [local EXCEPT ![t] = "done"]
                /\ UNCHANGED <<flags, ty, scenario, mem, cells, sync, pc, op, frame, guard,
                               ret, abs, expect, pre, hist, issued>>
           ELSE /\ Call(t, Op("compare_exchange", 80, [old EXCEPT ![1] = @ + 1], old,
                              "SeqCst", "SeqCst"))
                /\ issued' = [issued EXCEPT ![t] = @ + 1]
                /\ local' = [local EXCEPT ![t] = "load"]

CounterNext ==
    \/ \E t \in Threads : CounterLoad(t)
    \/ \E t \in Threads : CounterCas(t)
    \/ \E t \in Threads : LockCasOk(t)
    \/ \E t \in Threads : LockCasFail(t)
    \/ \E t \in Threads : SpinLoad(t)
    \/ \E t \in Threads : ReadStep(t)
    \/ \E t \in Threads : WriteStep(t)
    \/ \E t \in Threads : Unlock(t)

CounterSpec == CounterInit /\ [][CounterNext]_vars

OkCas(h) == h.op.kind = "compare_exchange" /\ h.r.tag = "ok"

CounterDone == \A t \in Threads : local[t] = "done"

\* C7: the j-th compare-exchange that reports success takes the counter from
\* j - 1 to j; there are never more than CounterN of them; whenever no thread
\* is between its lock and its unlock the object is the struct with counter =
\* the number of successes so far; and when both threads have left the loop
\* there were exactly CounterN successes and the stored counter is CounterN.
C7_CounterNoLostUpdate ==
    LET S == SelectSeq(hist, OkCas)
    IN  /\ \A j \in DOMAIN S :
             S[j].pre = Counter24(j - 1) /\ S[j].post = Counter24(j)
        /\ Len(S) <= CounterN
        /\ (\A t \in Threads : ~InCS(t)) => ValueAt(mem, 80, 24) = Counter24(Len(S))
        /\ CounterDone =>
             /\ Len(S) = CounterN
             /\ ValueAt(mem, 80, 24) = Counter24(CounterN)

\* Both threads have left the loop, each has incremented once, and one
\* compare-exchange failed because the other thread's came first
C7_Witness ==
    /\ CounterDone
    /\ \A t \in Threads : \E i \in DOMAIN hist : OkCas(hist[i]) /\ hist[i].t = t
    /\ \E i \in DOMAIN hist :
         hist[i].op.kind = "compare_exchange" /\ hist[i].r.tag = "err"

(***************************************************************************)
(* Specification SwapSpec: the threads run scripts of calls fixed at the   *)
(* start.  Either one thread runs store(v1); swap(v2); load, under every   *)
(* choice of the three orderings, or SwapThreads threads each swap SwapK   *)
(* values of their own into one object.                                    *)
(***************************************************************************)
SwapThreads == 2

\* Swaps per thread in the concurrent program
SwapK == 2

SwapBuilds ==
    {<<T_u16, AllFlags(FALSE)>>, <<T_u16, AllFlags(TRUE)>>, <<T_struct24, AllFlags(FALSE)>>}

SwapPrograms ==
    {[name |-> "swap", backend |-> "ops", kinds |-> {"store", "swap", "load"}, addrs |-> {80}],
     [name |-> "swap", backend |-> "ops", kinds |-> {"swap"}, addrs |-> {80}]}

\* The j-th value thread t swaps in: no two calls write the same value and
\* none writes the initial one
SwapValue(T, t, j) == Fill(T.size, 16 * t + j)

SwapInit ==
    /\ scenario \in SwapPrograms
    /\ \E b \in SwapBuilds : ty = b[1] /\ flags = b[2]
    /\ IF scenario.kinds = {"swap"}
       THEN /\ InitEngine(SwapThreads, Fill(ty.size, 0))
            /\ issued = [t \in 1 .. SwapThreads |-> 0]
            /\ local = [t \in 1 .. SwapThreads |->
                         [j \in 1 .. SwapK |->
                            Op("swap", 80, SwapValue(ty, t, j), <<>>, "AcqRel", "AcqRel")]]
       ELSE /\ InitEngine(1, Fill(ty.size, 0))
            /\ issued = [t \in {1} |-> 0]
            /\ \E os \in Ordering, o \in Ordering, ol \in Ordering :
                 local = [t \in {1} |->
                            <<Op("store", 80, RampUp(ty.size), <<>>, os, os),
                              Op("swap", 80, RampDown(ty.size), <<>>, o, o),
                              Op("load", 80, <<>>, <<>>, ol, ol)>>]

\* The thread calls the next operation of its script
SwapCall(t) ==
    /\ local[t] # <<>>
    /\ Call(t, Head(local[t]))
    /\ issued' = [issued EXCEPT ![t] = @ + 1]
    /\ local' = [local EXCEPT ![t] = Tail(@)]

SwapNext ==
    \/ \E t \in Threads : SwapCall(t)
    \/ \E t \in Threads : LockCasOk(t)
    \/ \E t \in Threads : LockCasFail(t)
    \/ \E t \in Threads : SpinLoad(t)
    \/ \E t \in Threads : ReadStep(t)
    \/ \E t \in Threads : WriteStep(t)
    \/ \E t \in Threads : Unlock(t)
    \/ \E t \in Threads : NativeStep(t)

SwapSpec == SwapInit /\ [][SwapNext]_vars

\* Every thread has run its script to the end
SwapDone == \A t \in Threads : pc[t] = "idle" /\ local[t] = <<>>

\* The values the swaps of the concurrent program write
SwapWritten == {SwapValue(ty, t, j) : t \in 1 .. SwapThreads, j \in 1 .. SwapK}

\* C9: a swap returns the bytes the object held just before it and leaves
\* its operand there; a swap that follows a store of v1 returns v1 and a load
\* that follows the swap of v2 returns v2, whatever the orderings and the
\* path; with concurrent swaps of distinct values no value is returned twice,
\* a returned value is the initial one or one written by another call, and
\* at the end every value written has been returned once or is the one stored.
C9_SwapReturnsPrior ==
    /\ \A i \in DOMAIN hist :
         hist[i].op.kind = "swap" =>
            /\ hist[i].r = [tag |-> "val", v |-> hist[i].pre]
            /\ hist[i].post = hist[i].op.val
    /\ Cardinality(Threads) = 1 =>
         \A i \in DOMAIN hist :
            /\ (i > 1 /\ hist[i].op.kind = "swap" /\ hist[i - 1].op.kind = "store"
                      /\ hist[i - 1].r.tag = "unit")
                  => hist[i].r.v = hist[i - 1].op.val
            /\ (i > 1 /\ hist[i].op.kind = "load" /\ hist[i - 1].op.kind = "swap"
                      /\ hist[i].r.tag # "panic")
                  => hist[i].r = [tag |-> "val", v |-> hist[i - 1].op.val]
    /\ scenario.kinds = {"swap"} =>
         LET returned == {hist[i].r.v : i \in DOMAIN hist}
             stored   == ValueAt(mem, 80, ty.size)
         IN  /\ \A i, j \in DOMAIN hist : i # j => hist[i].r.v # hist[j].r.v
             /\ \A i \in DOMAIN hist :
                  /\ hist[i].r.v \in {Fill(ty.size, 0)} \cup SwapWritten
                  /\ hist[i].r.v # hist[i].op.val
             /\ SwapDone =>
                  /\ stored \notin returned
                  /\ returned \cup {stored} = {Fill(ty.size, 0)} \cup SwapWritten

\* The concurrent program has ended on the fallback path with a 24-byte
\* value, and a thread's second swap returned a value the other thread wrote
C9_Witness ==
    /\ scenario.kinds = {"swap"}
    /\ ty = T_struct24
    /\ SwapDone
    /\ \E i \in DOMAIN hist :
         /\ hist[i].op.val = SwapValue(ty, 1, 2)
         /\ hist[i].r.v = SwapValue(ty, 2, 1)

(***************************************************************************)
(* Specification RmwSpec: one thread calls min, max, umin, umax, or and,   *)
(* or, xor and load, one after the other on one integer object; every      *)
(* completed call is logged in hist.                                       *)
(***************************************************************************)
\* Number of operations the thread calls
RmwCalls == 2

RmwPrograms ==
    {[name |-> "seq", backend |-> "ops", kinds |-> MinMaxKinds, addrs |-> {80}],
     [name |-> "seq", backend |-> "ops", kinds |-> BitKinds \cup {"load"}, addrs |-> {112}]}

RmwBuilds(sc) ==
    IF sc.kinds = MinMaxKinds
    THEN {T_u8, T_i8, T_i16} \X {AllFlags(TRUE), AllFlags(FALSE)}
    ELSE {T_u8, T_u16, T_u64} \X {AllFlags(TRUE), AllFlags(FALSE)}

\* 0x80 00 .. 00: the top bit alone
TopBit(n) == [i \in 1 .. n |-> IF i = n THEN 128 ELSE 0]

\* 0xA5 in every byte
Stripes(n) == Fill(n, 165)

\* The values the object may hold at the start
RmwValues(T, sc) ==
    IF sc.kinds = MinMaxKinds
    THEN {Fill(T.size, 0), One(T.size), Fill(T.size, 255), TopBit(T.size)}
    ELSE {Fill(T.size, 0), Fill(T.size, 255), Stripes(T.size), RampUp(T.size)}

\* The calls the thread may make; `current` is the value the object holds
RmwMenu(T, sc, current) ==
    LET n == T.size
        a == CHOOSE x \in sc.addrs : TRUE
    IN  IF sc.kinds = MinMaxKinds
        THEN {Op(k, a, v, <<>>, "SeqCst", "SeqCst") :
                k \in MinMaxKinds, v \in {Fill(n, 255), TopBit(n), current}}
        ELSE {Op(k, a, v, <<>>, "AcqRel", "AcqRel") :
                k \in BitKinds, v \in {Fill(n, 0), Fill(n, 255), Fill(n, 60)}}
             \cup {Op("load", a, <<>>, <<>>, "Acquire", "Acquire")}

RmwInit ==
    /\ scenario \in RmwPrograms
    /\ \E b \in RmwBuilds(scenario) : ty = b[1] /\ flags = b[2]
    /\ \E v0 \in RmwValues(ty, scenario) : InitEngine(1, v0)
    /\ issued = [t \in {1} |-> 0]
    /\ local = [t \in {1} |-> <<>>]

RmwCall(t) ==
    /\ issued[t] < RmwCalls
    /\ \E o \in RmwMenu(ty, scenario, ValueAt(mem, CHOOSE x \in scenario.addrs : TRUE, ty.size)) :
         Call(t, o)
    /\ issued' = [issued EXCEPT ![t] = @ + 1]
    /\ UNCHANGED local

RmwNext ==
    \/ \E t \in Threads : RmwCall(t)
    \/ \E t \in Threads : LockCasOk(t)
    \/ \E t \in Threads : LockCasFail(t)
    \/ \E t \in Threads : SpinLoad(t)
    \/ \E t \in Threads : ReadStep(t)
    \/ \E t \in Threads : WriteStep(t)
    \/ \E t \in Threads : Unlock(t)
    \/ \E t \in Threads : NativeStep(t)

RmwSpec == RmwInit /\ [][RmwNext]_vars

\* 2^(8n)
RECURSIVE Pow256(_)
Pow256(n) == IF n = 0 THEN 1 ELSE 256 * Pow256(n - 1)

\* The bytes v read as a two's complement integer (for at most 16 bits)
ToSignedInt(v) ==
    IF v[Len(v)] >= 128 THEN ToInt(v) - Pow256(Len(v)) ELSE ToInt(v)

\* The integer the comparison of kind k is specified to compare
KeyOf(k, v) == IF k \in {"min", "max"} THEN ToSignedInt(v) ELSE ToInt(v)

\* The operand that min/umin (max/umax) is specified to leave in the location
PickOf(k, a, b) ==
    IF k \in {"min", "umin"}
    THEN (IF KeyOf(k, b) < KeyOf(k, a) THEN b ELSE a)
    ELSE (IF KeyOf(k, b) > KeyOf(k, a) THEN b ELSE a)

\* C11: min, max, umin and umax return the prior value and leave the smaller
\* (min, umin) or larger (max, umax) of the prior value and the operand, min
\* and max comparing them as signed integers of the type's width, umin and
\* umax as unsigned ones, on the native and on the fallback path alike; with
\* the current value as operand the value is unchanged.
C11_MinMaxSignedUnsigned ==
    \A i \in DOMAIN hist :
        LET h == hist[i]
        IN  h.op.kind \in MinMaxKinds =>
              /\ h.r = [tag |-> "val", v |-> h.pre]
              /\ h.post = PickOf(h.op.kind, h.pre, h.op.val)
              /\ h.op.val = h.pre => h.post = h.pre

\* Bit k (0 = lowest) of the byte x
BitOf(x, k) == (x \div (2 ^ k)) % 2

\* The bit that and, or, xor are specified to produce from the bits p and q
BitRule(k, p, q) ==
    CASE k = "and" -> p * q
      [] k = "or"  -> IF p + q > 0 THEN 1 ELSE 0
      [] k = "xor" -> (p + q) % 2

\* The operand that is the identity of the operation k
IsIdentity(k, v) ==
    IF k = "and" THEN \A i \in DOMAIN v : v[i] = 255
    ELSE \A i \in DOMAIN v : v[i] = 0

\* C12: and, or, xor return the prior value and leave the bitwise and, or,
\* exclusive or of the prior value and the operand; or and xor with the
\* all-zero operand and `and` with the all-ones operand leave the value
\* unchanged, and a load that follows returns the original value.
C12_BitwiseOps ==
    \A i \in DOMAIN hist :
        LET h == hist[i]
        IN  /\ h.op.kind \in BitKinds =>
                /\ h.r = [tag |-> "val", v |-> h.pre]
                /\ Len(h.post) = ty.size
                /\ \A j \in 1 .. ty.size : \A k \in 0 .. 7 :
                     BitOf(h.post[j], k) =
                        BitRule(h.op.kind, BitOf(h.pre[j], k), BitOf(h.op.val[j], k))
                /\ IsIdentity(h.op.kind, h.op.val) => h.post = h.pre
            /\ (i > 1 /\ h.op.kind = "load" /\ hist[i - 1].op.kind \in BitKinds) =>
                /\ h.r = [tag |-> "val", v |-> hist[i - 1].post]
                /\ IsIdentity(hist[i - 1].op.kind, hist[i - 1].op.val) =>
                     h.r.v = hist[i - 1].pre

\* On the fallback path, a xor with zero on a striped value, which the load
\* that follows returns unchanged
C12_Witness ==
    /\ Len(hist) = 2
    /\ hist[1].op.kind = "xor"
    /\ ~OnNative(hist[1])
    /\ IsIdentity("xor", hist[1].op.val)
    /\ hist[1].pre = Stripes(ty.size)
    /\ hist[2].op.kind = "load"
    /\ hist[2].r.v = Stripes(ty.size)
    /\ ty.size = 8

\* A load with a releasing ordering, or a store with an acquiring one
InvalidLoadStore(o) ==
    \/ o.kind = "load" /\ o.order \in {"Release", "AcqRel"}
    \/ o.kind = "store" /\ o.order \in {"Acquire", "AcqRel"}

\* C13: a load called with Release or AcqRel and a store called with Acquire
\* or AcqRel end in an unrecoverable error, on the native and on the fallback
\* path: the call neither reads nor writes the location, it returns nothing
\* but the error, and it leaves no lock cell Locked.
C13_InvalidLoadStoreRejected ==
    /\ \A t \in Threads :
         InvalidLoadStore(op[t]) => pc[t] \notin {"read", "write", "unlock"}
    /\ \A i \in DOMAIN hist :
         InvalidLoadStore(hist[i].op) =>
            /\ hist[i].r = Panic
            /\ hist[i].post = hist[i].pre
    /\ \A t \in Threads :
         pc[t] = "panicked" => \A c \in DOMAIN cells : cells[c] = 0

\* C14: compare_exchange and compare_exchange_weak reject a pair of orderings
\* whose failure ordering is Release or AcqRel or is stronger than the success
\* ordering: the call signals an error and does not modify the location, on
\* the native and on the fallback path; every other pair is accepted.
C14_InvalidPairRejected ==
    /\ \A t \in Threads :
         (op[t].kind \in CxKinds /\ ~ValidPair(op[t].order, op[t].failure))
            => pc[t] \notin {"read", "write", "unlock"}
    /\ \A i \in DOMAIN hist :
         LET h == hist[i]
         IN  h.op.kind \in CxKinds =>
                IF ValidPair(h.op.order, h.op.failure)
                THEN h.r.tag \in {"ok", "err"}
                ELSE h.r = Panic /\ h.post = h.pre

(***************************************************************************)
(* Specification DispatchSpec: the dispatcher and atomic_is_lock_free on   *)
(* every backend, for types of every size and alignment and for the        *)
(* capability flags each backend can be built with.  One thread asks       *)
(* atomic_is_lock_free, calls one operation, and asks again.               *)
(***************************************************************************)
\* (size, alignment) of the value types: integers and integer-like wrappers,
\* aligned and packed, and structs of a size no native cell has
DispatchTypes ==
    {Ty(1, 1, TRUE, FALSE),
     Ty(2, 1, TRUE, FALSE), Ty(2, 2, TRUE, FALSE),
     Ty(3, 1, FALSE, FALSE),
     Ty(4, 1, TRUE, FALSE), Ty(4, 2, TRUE, FALSE), Ty(4, 4, TRUE, FALSE),
     Ty(8, 1, TRUE, FALSE), Ty(8, 4, TRUE, FALSE), Ty(8, 8, TRUE, FALSE),
     Ty(16, 8, FALSE, FALSE), Ty(16, 16, FALSE, FALSE),
     Ty(24, 8, FALSE, FALSE)}

UnsignedFlags == {"u8", "u16", "u32", "u64", "usize"}

\* The signed cell type of a width exists exactly when the unsigned one does
SignedTwin(n) ==
    CASE n = "u8" -> "i8" [] n = "u16" -> "i16" [] n = "u32" -> "i32"
      [] n = "u64" -> "i64" [] n = "usize" -> "isize"

\* The flags of a build of the backend: ops.rs reads every has_atomic_* flag
\* and has_fetch_min; nightly.rs reads target_has_atomic of the four widths,
\* the pointer width being the 64-bit one; stable.rs reads none
DispatchFlags(backend) ==
    IF backend = "stable" THEN {StableFlags}
    ELSE IF backend = "nightly"
    THEN {OnlyFlags(S \cup {SignedTwin(n) : n \in S}) :
            S \in {X \in SUBSET UnsignedFlags : ("usize" \in X) <=> ("u64" \in X)}}
    ELSE {OnlyFlags(S \cup {SignedTwin(n) : n \in S} \cup M) :
            S \in SUBSET UnsignedFlags, M \in {{}, {"fetch_min"}}}

DispatchPrograms ==
    {[name |-> "seq", backend |-> b, kinds |-> BackendKinds(b), addrs |-> {80}] :
        b \in {"ops", "stable", "nightly"}}

\* The calls the thread may make on a T
DispatchMenu(T, sc) ==
    LET n == T.size
        ks == IF T.int THEN sc.kinds
              ELSE sc.kinds \cap {"load", "store", "swap", "compare_exchange",
                                  "compare_exchange_weak"}
    IN  {Op(k, 80, One(n), RampUp(n), "SeqCst", "SeqCst") : k \in ks}

DispatchInit ==
    /\ scenario \in DispatchPrograms
    /\ ty \in DispatchTypes
    /\ flags \in DispatchFlags(scenario.backend)
    /\ InitEngine(1, RampUp(ty.size))
    /\ issued = [t \in {1} |-> 0]
    /\ local = [t \in {1} |-> [todo |-> <<"query", "call", "query">>, answers |-> <<>>]]

\* atomic_is_lock_free::<T>()
DispatchQuery(t) ==
    /\ pc[t] = "idle"
    /\ local[t].todo # <<>>
    /\ Head(local[t].todo) = "query"
    /\ local' = [local EXCEPT ![t] =
                    [todo |-> Tail(@.todo),
                     answers |-> Append(@.answers,
                                        is_lock_free(scenario.backend, ty, flags))]]
    /\ UNCHANGED <<flags, ty, scenario, mem, cells, sync, pc, op, frame, guard, ret,
                   abs, expect, pre, hist, issued>>

DispatchCall(t) ==
    /\ local[t].todo # <<>>
    /\ Head(local[t].todo) = "call"
    /\ \E o \in DispatchMenu(ty, scenario) : Call(t, o)
    /\ issued' = [issued EXCEPT ![t] = @ + 1]
    /\ local' = [local EXCEPT ![t].todo = Tail(@)]

DispatchNext ==
    \/ \E t \in Threads : DispatchQuery(t)
    \/ \E t \in Threads : DispatchCall(t)
    \/ \E t \in Threads : LockCasOk(t)
    \/ \E t \in Threads : LockCasFail(t)
    \/ \E t \in Threads : SpinLoad(t)
    \/ \E t \in Threads : ReadStep(t)
    \/ \E t \in Threads : WriteStep(t)
    \/ \E t \in Threads : Unlock(t)
    \/ \E t \in Threads : NativeStep(t)

DispatchSpec == DispatchInit /\ [][DispatchNext]_vars

\* The supported native widths in bytes, each with its capability flag; the
\* last one is the pointer width
NativeWidths ==
    {<<1, "u8">>, <<2, "u16">>, <<4, "u32">>, <<8, "u64">>, <<SIZEOF_USIZE, "usize">>}

\* The eligibility rule: some supported width has its flag set, is the size
\* of T, and is at most the alignment of T
Eligible(T, f) ==
    \E w \in NativeWidths : f[w[2]] /\ T.size = w[1] /\ T.align >= w[1]

UnderAligned(T) == T.size \in {1, 2, 4, 8} /\ T.align < T.size

\* C16: on every backend and for every operation, a type whose size is that
\* of a native cell and whose alignment is smaller takes the fallback path:
\* no call on it is dispatched to a native instruction, none has executed
\* one.
C16_UnderAlignedFallsBack ==
    UnderAligned(ty) =>
        /\ \A t \in Threads : pc[t] # "native"
        /\ \A i \in DOMAIN hist : ~OnNative(hist[i]) /\ hist[i].r # Fault

\* Thread t is inside a fallback function
OnFallbackPath(t) == pc[t] \in {"lock", "spin", "read", "write", "unlock"}

\* C17: atomic_is_lock_free agrees with the dispatcher.  Where it answers
\* true every public operation on the type executes natively, where it
\* answers false every one goes through the fallback engine, whatever the
\* flags (the native min/max flag among them): no type has some operations
\* native and others not.
C17_QueryAgreesWithDispatch ==
    \A t \in Threads : \A i \in DOMAIN local[t].answers :
        LET free == local[t].answers[i]
        IN  /\ pc[t] = "native" => free
            /\ OnFallbackPath(t) => ~free
            /\ \A j \in DOMAIN hist : OnNative(hist[j]) <=> free

\* The widths of 8, 16, 32 and 64 bits, in bytes, each with its flag
FlaggedWidths == {<<1, "u8">>, <<2, "u16">>, <<4, "u32">>, <<8, "u64">>}

\* No operation on the type has been dispatched natively, and every one
\* that has returned has returned a value, not an error
FallbackAndNormal ==
    /\ \A t \in Threads : pc[t] \notin {"native", "panicked"}
    /\ \A i \in DOMAIN hist :
         ~OnNative(hist[i]) /\ hist[i].r.tag \in {"val", "unit", "ok", "err"}

\* With all flags absent, every type is answered not lock-free and every
\* operation uses the fallback
NoFlagNoNative ==
    flags = AllFlags(FALSE) =>
        /\ \A t \in Threads : \A i \in DOMAIN local[t].answers : ~local[t].answers[i]
        /\ FallbackAndNormal

\* C18 as stated: for every width of 8, 16, 32, 64 bits whose flag is absent
\* and every setting of the other flags, the pointer-width flag included,
\* every operation on a type of that width goes through the fallback and
\* completes normally.
C18_AbsentFlagFallsBack ==
    /\ \A w \in FlaggedWidths :
         (~flags[w[2]] /\ ty.size = w[1]) => FallbackAndNormal
    /\ NoFlagNoNative

\* C18: for every width of 8, 16, 32, 64 bits whose flag is absent, every
\* operation on a type of that width goes through the fallback and completes
\* normally, unless the width is the pointer width and the pointer-width flag
\* is set; with all flags absent every type is answered not lock-free and
\* everything goes through the fallback.
C18_AbsentFlagFallsBackButPointerWidth ==
    /\ \A w \in FlaggedWidths :
         (~flags[w[2]] /\ ty.size = w[1] /\ ~(w[1] = SIZEOF_USIZE /\ flags["usize"]))
            => FallbackAndNormal
    /\ NoFlagNoNative

\* A 4-byte aligned type on a build of ops.rs that has every flag but the
\* 32-bit ones: an add has gone through the fallback and returned the prior
\* value
C18_Witness ==
    /\ scenario.backend = "ops"
    /\ ty.size = 4 /\ ty.align = 4
    /\ ~flags["u32"] /\ flags["u8"] /\ flags["u16"] /\ flags["u64"] /\ flags["usize"]
    /\ Len(hist) = 1
    /\ hist[1].op.kind = "add"
    /\ hist[1].r = [tag |-> "val", v |-> RampUp(4)]
    /\ local[1].answers = <<FALSE, FALSE>>

\* C19: on the fallback path compare_exchange_weak never fails spuriously.
\* It succeeds, returning Ok(prior) and storing `new`, whenever the bytes of
\* the location equal those of `current` when the lock is held, and fails
\* with Err(prior), storing nothing, otherwise: the outcome of the strong
\* form.
C19_WeakIsStrongOnFallback ==
    \A i \in DOMAIN hist :
        LET h == hist[i]
        IN  (h.op.kind = "compare_exchange_weak" /\ ~OnNative(h)) =>
              IF h.pre = h.op.cur
              THEN h.r = [tag |-> "ok", v |-> h.pre] /\ h.post = h.op.val
              ELSE h.r = [tag |-> "err", v |-> h.pre] /\ h.post = h.pre

\* A weak compare-exchange on the fallback path of stable.rs found the NaN it
\* expected and succeeded
C19_Witness ==
    \E i \in DOMAIN hist :
        /\ hist[i].op.kind = "compare_exchange_weak"
        /\ ~OnNative(hist[i])
        /\ scenario.backend = "stable"
        /\ hist[i].pre = FloatNaN(ty.size)
        /\ hist[i].r.tag = "ok"
        /\ hist[i].post = FloatOne(ty.size)

\* The cell each object address selects, worked out by hand from the hash:
\* 80 >> 4 = 5; 112 >> 4 = 7; 1048640 >> 4 = 65540, whose low six bits are 4
\* and whose next six bits are 0, and (65540 >> 16) = 1 gives 4 ^ 0 ^ 1 = 5
CellOf == (80 :> 5) @@ (112 :> 7) @@ (1048640 :> 5)

\* C20: the lock cell is a function of the address alone.  Whatever the
\* thread, the moment, the kind of operation and its ordering, a fallback
\* operation on an address holds or waits for the one cell of that address,
\* whose index lies in 0 .. 63; two fallback operations on the same address
\* select the same cell.
C20_LockOfAddressAlone ==
    /\ \A t \in Threads :
         OnFallbackPath(t) =>
            /\ guard[t].lock \in 0 .. (NLOCKS - 1)
            /\ guard[t].lock = CellOf[op[t].addr]
    /\ \A t, u \in Threads :
         (OnFallbackPath(t) /\ OnFallbackPath(u) /\ op[t].addr = op[u].addr)
            => guard[t].lock = guard[u].lock

\* Two threads are in fallback operations of different kinds on the same
\* address: one holds the cell, the other waits for the same cell
C20_Witness ==
    \E t, u \in Threads :
        /\ t # u
        /\ OnFallbackPath(t) /\ OnFallbackPath(u)
        /\ op[t].addr = op[u].addr
        /\ op[t].kind # op[u].kind
        /\ guard[t].held /\ pc[u] = "spin"
        /\ guard[t].lock = guard[u].lock
        /\ cells[guard[u].lock] = 1

(***************************************************************************)
(* Specification FairSpec: two threads make a finite number of fallback    *)
(* calls on two objects that share a lock cell, under a fair scheduler.    *)
(* Every thread that can take a step eventually takes one, and a weak      *)
(* compare-and-set that is attempted again and again on a free cell does   *)
(* not fail spuriously for ever.                                           *)
(***************************************************************************)
FairThreads == {1, 2}

\* Number of operations the threads call, all together
FairCalls == 2

FairMenu(T) ==
    {Op("store", a, Fill(T.size, 255), <<>>, "Release", "Release") : a \in {80, 1048640}}
    \cup {Op("load", 80, <<>>, <<>>, "Acquire", "Acquire"),
          Op("compare_exchange", 80, Fill(T.size, 1), Fill(T.size, 0), "SeqCst", "Relaxed")}

FairInit ==
    /\ scenario = [name |-> "fair", backend |-> "ops",
                   kinds |-> {"store", "load", "compare_exchange"},
                   addrs |-> {80, 1048640}]
    /\ ty \in {T_u8, T_struct24}
    /\ flags = AllFlags(FALSE)
    /\ InitEngine(Cardinality(FairThreads), Fill(ty.size, 0))
    /\ issued = [t \in FairThreads |-> 0]
    /\ local = [t \in FairThreads |-> <<>>]

FairCall(t) ==
    /\ Sum(issued, Threads) < FairCalls
    /\ \E o \in FairMenu(ty) : Call(t, o)
    /\ issued' = [issued EXCEPT ![t] = @ + 1]
    /\ UNCHANGED local

FairNext ==
    \/ \E t \in Threads : FairCall(t)
    \/ \E t \in Threads : LockCasOk(t)
    \/ \E t \in Threads : LockCasFail(t)
    \/ \E t \in Threads : SpinLoad(t)
    \/ \E t \in Threads : ReadStep(t)
    \/ \E t \in Threads : WriteStep(t)
    \/ \E t \in Threads : Unlock(t)

ThreadStep(t) ==
    \/ FairCall(t)
    \/ LockCasOk(t)
    \/ LockCasFail(t)
    \/ SpinLoad(t)
    \/ ReadStep(t)
    \/ WriteStep(t)
    \/ Unlock(t)

FairSpec ==
    /\ FairInit
    /\ [][FairNext]_vars
    /\ \A t \in FairThreads : WF_vars(ThreadStep(t)) /\ SF_vars(LockCasOk(t))

\* The threads have made all their calls and have returned from the last
FairDone ==
    /\ Sum(issued, Threads) = FairCalls
    /\ \A t \in Threads : pc[t] = "idle"

CrossThreads == {1, 2}

\* Number of operations the threads call, all together
CrossCalls == 2

\* The little-endian bytes of a small u32
U32(x) == <<x, 0, 0, 0>>

CrossFlags == {AllFlags(TRUE), [AllFlags(TRUE) EXCEPT !["fetch_min"] = FALSE]}

CrossMenu ==
    {Op("add", 80, U32(1), <<>>, "SeqCst", "SeqCst"),
     Op("xor", 80, U32(6), <<>>, "SeqCst", "SeqCst"),
     Op("swap", 80, U32(9), <<>>, "SeqCst", "SeqCst"),
     Op("compare_exchange", 80, U32(5), U32(2), "SeqCst", "SeqCst"),
     Op("min", 80, U32(1), <<>>, "SeqCst", "SeqCst"),
     Op("max", 80, U32(3), <<>>, "SeqCst", "SeqCst"),
     Op("umax", 80, U32(4), <<>>, "SeqCst", "SeqCst")}

CrossInit ==
    /\ scenario = [name |-> "cross", backend |-> "ops", kinds |-> OpKinds, addrs |-> {80}]
    /\ ty = T_u32
    /\ flags \in CrossFlags
    /\ InitEngine(Cardinality(CrossThreads), U32(2))
    /\ issued = [t \in CrossThreads |-> 0]
    /\ local = [t \in CrossThreads |-> <<>>]

CrossCall(t) ==
    /\ Sum(issued, Threads) < CrossCalls
    /\ \E o \in CrossMenu : Call(t, o)
    /\ issued' = [issued EXCEPT ![t] = @ + 1]
    /\ UNCHANGED local

CrossNext ==
    \/ \E t \in Threads : CrossCall(t)
    \/ \E t \in Threads : LockCasOk(t)
    \/ \E t \in Threads : LockCasFail(t)
    \/ \E t \in Threads : SpinLoad(t)
    \/ \E t \in Threads : ReadStep(t)
    \/ \E t \in Threads : WriteStep(t)
    \/ \E t \in Threads : Unlock(t)
    \/ \E t \in Threads : NativeStep(t)

CrossSpec == CrossInit /\ [][CrossNext]_vars

CrossDone ==
    /\ Sum(issued, Threads) = CrossCalls
    /\ \A t \in Threads : pc[t] = "idle"

\* What the operation o does to the value v when it is one indivisible step
OneStep(o, v) ==
    ops_native_body(IF o.kind \in {"min", "max"} THEN "AtomicI32" ELSE "AtomicU32",
                    o, v, FALSE)

RECURSIVE Serial(_, _)
\* Some order of the completed operations with indices in S, executed one
\* after the other from the value v, returns what they returned and ends
\* with the bytes now in memory
Serial(S, v) ==
    IF S = {} THEN v = ValueAt(mem, 80, ty.size)
    ELSE \E i \in S :
            LET b == OneStep(hist[i].op, v)
            IN  /\ hist[i].r = Returned(b, v)
                /\ Serial(S \ {i}, IF b.write THEN b.new ELSE v)

\* C22: operations of different kinds on one location of a natively eligible
\* integer type are mutually atomic, whatever has_fetch_min: once the threads
\* have finished, the final value and the values returned are those of some
\* serial order of the operations: no update is lost.
C22_MixedKindsAtomic ==
    CrossDone => Serial(DOMAIN hist, U32(2))

(***************************************************************************)
(* Specification HashSpec: lock() selects the cell for an operation on a   *)
(* value of type T at address a (fallback.rs:102).  The addresses are      *)
(* taken around bases whose bits 4..9 and 20..25, the ones the hash uses,  *)
(* differ, all below 2^31.                                                 *)
(***************************************************************************)
\* Offsets 0 .. HashSpan are taken from each base address
HashSpan == 31

HashBases ==
    {0, 80, 1008, 1048576, 1048640, 66061296, 67108864, 1073741904, 2147483520}

\* [u8; 3]: three bytes, alignment 1
T_bytes3 == Ty(3, 1, FALSE, FALSE)

HashTypes == {T_u8, T_u16, T_u64, T_bytes3, T_struct24}

HashAddrs == {b + d : b \in HashBases, d \in 0 .. HashSpan}

HashInit ==
    /\ scenario = [name |-> "hash", backend |-> "ops", kinds |-> {"load"},
                   addrs |-> {}]
    /\ ty \in HashTypes
    /\ flags = AllFlags(FALSE)
    /\ InitEngine(1, Fill(ty.size, 0))
    /\ issued = [t \in {1} |-> 0]
    /\ \E a \in HashAddrs :
         /\ a % ty.align = 0
         /\ local = [t \in {1} |-> [addr |-> a, selected |-> FALSE]]

\* let lock = lock_for_addr(addr)
HashSelect(t) ==
    /\ ~local[t].selected
    /\ guard' = [guard EXCEPT ![t] =
                    [NoGuard EXCEPT !.lock = lock_for_addr(local[t].addr)]]
    /\ local' = [local EXCEPT ![t].selected = TRUE]
    /\ UNCHANGED <<flags, ty, scenario, mem, cells, sync, pc, op, frame, ret,
                   abs, expect, pre, hist, issued>>

HashNext ==
    \/ \E t \in Threads : HashSelect(t)

HashSpec == HashInit /\ [][HashNext]_vars

\* x XOR y of two naturals below 2^31, bit by bit
XorInt(x, y) ==
    LET bit(i) == ((x \div (2 ^ i)) + (y \div (2 ^ i))) % 2
        RECURSIVE upto(_)
        upto(i) == IF i < 0 THEN 0 ELSE bit(i) * (2 ^ i) + upto(i - 1)
    IN  upto(30)

\* The index the formula gives for address a
IndexFormula(a) ==
    XorInt((a \div 16) \div 65536, (a \div 16) % 64) % 64

\* C23: for every address a, lock_for_addr selects the index
\* (((a >> 4) >> 16) XOR ((a >> 4) mod 64)) mod 64; consequently every
\* address that differs from a only in its low 4 bits selects the same cell.
C23_LockIndexFormula ==
    \A t \in Threads :
        local[t].selected =>
            /\ guard[t].lock = IndexFormula(local[t].addr)
            /\ \A b \in HashAddrs :
                 (b \div 16 = local[t].addr \div 16) => lock_for_addr(b) = guard[t].lock

\* The cell of an address with a non-zero low nibble was selected, and the
\* folded high bits changed the preliminary index (4 became 5)
C23_Witness ==
    \E t \in Threads :
        /\ local[t].selected
        /\ local[t].addr = 1048643
        /\ guard[t].lock = 5
        /\ (local[t].addr \div 16) % 64 = 4

\* The byte addresses of the value of type T at address a
BytesOf(a, T) == a .. (a + T.size - 1)

\* The value at a lies within one aligned block of 16 bytes
InOneBlock(a, T) == a \div 16 = (a + T.size - 1) \div 16

Acquires(t) == pc[t] = "lock" /\ pc'[t] \notin {"lock", "spin"}

\* Thread t drops its guard in this step
Releases(t) == pc[t] = "unlock" /\ pc'[t] # "unlock"

C25_Step(t) ==
    /\ Acquires(t) =>
          /\ sync'[guard[t].lock].acc = "compare_exchange_weak"
          /\ sync'[guard[t].lock].order =
                 (IF op[t].order = "SeqCst" THEN "SeqCst" ELSE "Acquire")
    /\ (Releases(t) /\ op[t].kind \notin CxKinds) =>
          /\ sync'[guard[t].lock].acc = "store"
          /\ sync'[guard[t].lock].order =
                 (IF op[t].order = "SeqCst" THEN "SeqCst" ELSE "Release")
    /\ Releases(t) => sync'[guard[t].lock].order \in {"Release", "SeqCst"}

\* C25: for every fallback operation with requested ordering o, the
\* successful lock-acquiring compare-and-set uses SeqCst when o = SeqCst and
\* Acquire for every other o, and the releasing write uses SeqCst when
\* o = SeqCst and Release for every other o; the lock's own ordering is never
\* weaker than Acquire on entry and Release on exit.
C25_OrderingTranslation ==
    [][\A t \in Threads : C25_Step(t)]_vars

\* An AcqRel operation has returned, having released its cell with Release,
\* and a Release operation now holds the same cell, taken with Acquire
C25_Witness ==
    /\ hist # <<>>
    /\ hist[Len(hist)].op.order = "AcqRel"
    /\ \E t \in Threads :
         /\ InCS(t)
         /\ op[t].order = "Release"
         /\ sync[guard[t].lock] = [acc |-> "compare_exchange_weak", order |-> "Acquire"]

\* The ordering the release of a lock derives from ordering o
Derived(o) == IF o = "SeqCst" THEN "SeqCst" ELSE "Release"

C26_Step(t) ==
    op[t].kind \in CxKinds =>
        /\ Acquires(t) =>
              sync'[guard[t].lock] =
                 [acc |-> "compare_exchange_weak",
                  order |-> IF op[t].order = "SeqCst" THEN "SeqCst" ELSE "Acquire"]
        /\ Releases(t) =>
              /\ cells[guard[t].lock] = 1 /\ cells'[guard[t].lock] = 0
              /\ ret'[t].tag \in {"ok", "err"}
              /\ sync'[guard[t].lock].order =
                     Derived(IF ret'[t].tag = "ok" THEN op[t].order ELSE op[t].failure)
        \* the function returns through the release and through nothing else
        /\ (OnFallbackPath(t) /\ pc'[t] = "idle") => Releases(t)
        /\ (guard[t].held /\ cells'[guard[t].lock] = 0) => Releases(t)

\* C26: in the fallback compare-exchange the lock is acquired with the
\* ordering derived from success_ordering; when the comparison succeeds the
\* lock is released with the ordering derived from success_ordering, when it
\* fails with the ordering derived from failure_ordering; in both cases the
\* lock is released exactly once, by the step that returns.
C26_CompareExchangeOrderings ==
    [][\A t \in Threads : C26_Step(t)]_vars

\* A compare-exchange with orderings (Relaxed, SeqCst) has failed and freed
\* its cell with SeqCst, after one with the same orderings that succeeded
C26_Witness ==
    /\ Len(hist) = 2
    /\ hist[1].op.kind = "compare_exchange" /\ hist[1].r.tag = "ok"
    /\ hist[2].op.kind = "compare_exchange" /\ hist[2].r.tag = "err"
    /\ hist[2].op.order = "Relaxed" /\ hist[2].op.failure = "SeqCst"
    /\ sync[lock_for_addr(hist[2].op.addr)] = [acc |-> "store", order |-> "SeqCst"]
    /\ \A c \in DOMAIN cells : cells[c] = 0

\* Thread t holds cell c: lock() has returned its guard for c and the guard
\* has not been dropped
Holds(t, c) == guard[t].held /\ guard[t].lock = c

\* C27: a cell's state is only ever Free (0) or Locked (1); a locked cell is
\* held by a thread inside a fallback operation, so a thread that is not
\* inside an operation holds no cell; and in every state where no operation
\* is in flight, the initial state included, all 64 cells are Free.
C27_NoLockRetained ==
    /\ DOMAIN cells = 0 .. 63
    /\ \A c \in DOMAIN cells :
         /\ cells[c] \in {0, 1}
         /\ cells[c] = 1 <=> \E t \in Threads : Holds(t, c)
    /\ \A t \in Threads : guard[t].held => InCS(t)
    /\ (\A t \in Threads : pc[t] \in {"idle", "panicked"}) =>
          \A c \in DOMAIN cells : cells[c] = 0

\* A compare-exchange has failed and returned, another has succeeded and
\* returned, nothing is in flight, and the cell both used has been taken
\* and freed
C27_Witness ==
    /\ \A t \in Threads : pc[t] = "idle"
    /\ \E t, u \in Threads : ret[t].tag = "err" /\ ret[u].tag = "ok"
    /\ sync[lock_for_addr(80)].acc = "store"
    /\ \A c \in DOMAIN cells : cells[c] = 0

\* C28 as stated: every write of a lock cell, on acquire and on release, is
\* a compare-and-set on that cell; no cell is ever written by an
\* unconditional store.
C28_OnlyCompareAndSet ==
    \A c \in DOMAIN cells : sync[c].acc \in {"new", "compare_exchange_weak"}

C28_Step(c) ==
    /\ sync'[c] # sync[c] => cells'[c] # cells[c]
    /\ cells'[c] # cells[c] =>
          \/ /\ cells[c] = 0 /\ cells'[c] = 1
             /\ sync'[c].acc = "compare_exchange_weak"
             /\ \E t \in Threads : Acquires(t) /\ guard[t].lock = c
          \/ /\ cells[c] = 1 /\ cells'[c] = 0
             /\ sync'[c].acc = "store"
             /\ \E t \in Threads : Releases(t) /\ Holds(t, c)

\* C28 amended: every step that takes a cell Free->Locked is a
\* compare-and-set on that cell; every step that takes it Locked->Free is an
\* atomic store of Free by the thread that holds it; no other step writes
\* a cell, and no write leaves a cell's state as it was.
C28_CompareAndSetThenStore ==
    [][\A c \in DOMAIN cells : C28_Step(c)]_vars

\* Cell 5 has been freed by a store and is being contended for again: one
\* thread has taken it by compare-and-set, another spins on it
C28_Witness ==
    \E t, u \in Threads :
        /\ Holds(t, 5) /\ sync[5].acc = "compare_exchange_weak"
        /\ pc[u] = "spin" /\ guard[u].lock = 5
        /\ issued[t] + issued[u] = MixCalls

\* Thread u waits for cell c: it is inside SpinLock::lock
WaitsFor(u, c) == pc[u] \in {"lock", "spin"} /\ guard[u].lock = c

C29_State ==
    \* a thread that waits holds nothing, and there are no more locked cells
    \* than threads past lock()
    /\ \A u \in Threads : pc[u] \in {"lock", "spin"} => ~guard[u].held
    /\ Cardinality({c \in DOMAIN cells : cells[c] = 1})
          <= Cardinality({t \in Threads : InCS(t)})
    \* the holder of a cell somebody spins on has a step to take
    /\ \A u \in Threads :
         (pc[u] = "spin" /\ cells[guard[u].lock] = 1) =>
            \E t \in Threads \ {u} :
               /\ Holds(t, guard[u].lock)
               /\ ~(\E c \in DOMAIN cells : WaitsFor(t, c))
               /\ ENABLED (ReadStep(t) \/ WriteStep(t) \/ Unlock(t))

\* C29: a thread inside a fallback operation holds at most one cell and
\* never waits for a cell while holding one; whenever a thread spins on a
\* locked cell, the thread holding that cell can take a step, and its steps
\* lead to the release of the cell; this holds also when the two threads use
\* different addresses that hash to the same cell.
C29_NoSelfDeadlock ==
    /\ []C29_State
    /\ \A t \in FairThreads : guard[t].held ~> ~guard[t].held

\* A thread storing to 1048640 spins on cell 5 while the thread storing to
\* 80 holds it
C29_Witness ==
    \E t, u \in Threads :
        /\ op[t].addr = 80 /\ op[u].addr = 1048640
        /\ Holds(t, 5) /\ pc[t] = "write"
        /\ pc[u] = "spin" /\ WaitsFor(u, 5)
        /\ cells[5] = 1

\* Thread t has done every plain read and write of its operation
BodyDone(t) ==
    /\ Len(frame[t].result) = (IF op[t].kind = "store" THEN 0 ELSE ty.size)
    /\ frame[t].wpos = (IF frame[t].body.write THEN ty.size ELSE 0)

C30_Step ==
    \* a cell is freed only by a step of its holder
    /\ \A c \in DOMAIN cells :
         (cells[c] = 1 /\ cells'[c] = 0) =>
            \E t \in Threads : Holds(t, c) /\ Releases(t)
    \* the release is of a cell the thread holds, comes after the last read
    \* and write, and ends the operation
    /\ \A t \in Threads :
         Releases(t) =>
            /\ guard[t].held /\ guard[t].lock = lock_for_addr(op[t].addr)
            /\ cells[guard[t].lock] = 1 /\ cells'[guard[t].lock] = 0
            /\ BodyDone(t)
            /\ pc'[t] = "idle" /\ ~guard'[t].held
    \* an operation returns through its release, so it releases exactly once
    /\ \A t \in Threads : (OnFallbackPath(t) /\ pc'[t] = "idle") => Releases(t)
    \* the location is written under the lock only
    /\ \A a \in Addrs :
         ValueAt(mem', a, ty.size) # ValueAt(mem, a, ty.size) =>
            \E t \in Threads :
               /\ op[t].addr = a
               /\ \/ pc[t] = "native"
                  \/ /\ pc[t] = "write"
                     /\ Holds(t, lock_for_addr(a))
                     /\ cells[lock_for_addr(a)] = 1 /\ cells'[lock_for_addr(a)] = 1

\* C30: a cell goes Locked->Free only through a step of the thread whose
\* compare-and-set most recently took it; that step happens exactly once per
\* operation, after the operation's last plain read/write of the location;
\* a thread never releases a cell it does not hold and never writes the
\* location after releasing.
C30_OnlyHolderReleases ==
    [][C30_Step]_vars

\* One thread has returned, having freed cell 5 by its store; the other has
\* since taken the cell and is writing its 24-byte value
C30_Witness ==
    \E t, u \in Threads :
        /\ ty = T_struct24
        /\ pc[t] = "idle" /\ ret[t].tag # "none" /\ ~guard[t].held
        /\ Holds(u, 5) /\ pc[u] = "write" /\ frame[u].wpos = 16
        /\ sync[5].acc = "compare_exchange_weak"

\* The byte addresses of the object of thread t's operation
Footprint(t) == op[t].addr .. (op[t].addr + ty.size - 1)

\* s is the beginning of sequence w
IsPrefix(s, w) == Len(s) <= Len(w) /\ \A i \in 1 .. Len(s) : s[i] = w[i]

C31_Step ==
    AllFallback =>
        \* a byte changes only in a write of a thread whose object holds it
        /\ \A b \in MemRange :
             mem'[b] # mem[b] =>
                \E t \in Threads : pc[t] = "write" /\ b \in Footprint(t)
        \* a cell changes only in a step of a thread whose address selects it
        /\ \A c \in DOMAIN cells :
             cells'[c] # cells[c] =>
                \E t \in Threads :
                   /\ pc[t] \in {"lock", "unlock"} /\ pc'[t] # pc[t]
                   /\ c = CellOf[op[t].addr]
        \* what has been read so far is the beginning of the object's bytes
        /\ \A t \in Threads :
             frame'[t].result # frame[t].result =>
                \/ frame'[t].result = <<>>
                \/ /\ pc[t] = "read"
                   /\ IsPrefix(frame'[t].result, ValueAt(mem, op[t].addr, ty.size))
        \* load and a failed compare-exchange never write, and leave the object
        \* as they found it
        /\ \A t \in Threads :
             (Releases(t) /\ (op[t].kind = "load" \/ ret'[t].tag = "err")) =>
                /\ frame[t].wpos = 0
                /\ ValueAt(mem', op[t].addr, ty.size) = pre[t]
        /\ \A t \in Threads : (op[t].kind = "load" /\ pc[t] # "idle") => pc'[t] # "write"

\* C31: a fallback operation on a value of type T at address a reads and
\* writes only the size_of(T) bytes at a and only the lock cell selected for
\* a; every other address and the other 63 cells are unchanged by it, and a
\* load or a failed compare-exchange leaves the bytes at a unchanged as well.
C31_Frame ==
    [][C31_Step]_vars

\* A one-byte store to 80 has returned and changed that byte alone, while
\* the other thread, inside an operation on 1048640, holds cell 5
C31_Witness ==
    \E t, u \in Threads :
        /\ AllFallback /\ ty = T_u8
        /\ pc[t] = "idle" /\ ret[t].tag = "unit"
        /\ mem[80] # 0
        /\ \A b \in MemRange \ {80} : mem[b] = 0
        /\ op[u].addr = 1048640 /\ Holds(u, 5)
        /\ \A c \in DOMAIN cells : cells[c] = (IF c = 5 THEN 1 ELSE 0)

=============================================================================
